---------------------------- MODULE Spec2Model ----------------------------
(***************************************************************************)
(* Model of the hexameter scanner (scan.py): normalization, tokenization,   *)
(* segmentation, elision, coda analysis, scheme, candidate generation and   *)
(* the search for metrical sequences, together with the expansion of a      *)
(* Meter scheme into its legal patterns.                                    *)
(*                                                                         *)
(* Text is a sequence of characters; a character is a short ASCII name:     *)
(*   "a"  an unmarked letter          "A"   its upper-case form             *)
(*   "a-" a vowel with macron         "a^"  a vowel with breve              *)
(*   "a'" a vowel with acute          "e:"  e with diaeresis                *)
(*   "^"  the combining breve U+0306 (as in y + breve)                      *)
(*   "{ae}" "{oe}" "{AE}" "{OE}"  the ligatures                             *)
(* A Python None is written "none"; the elided flag None is FALSE and the  *)
(* scansion_count None is -1.                                               *)
(***************************************************************************)
EXTENDS Integers, Sequences, FiniteSets, TLC

VARIABLES
    original_form,            \* Verse.original_form
    mode,                     \* "plain" | "unmarked_short" | "dictionary"
    normalized_form,          \* Verse.normalized_form
    tokens,                   \* Verse.tokens
    scheme,                   \* Verse.scheme
    candidate_sequences,      \* Verse.candidate_sequences
    metrical_sequences,       \* Verse.metrical_sequences
    full_metrical_sequences,  \* Verse.full_metrical_sequences
    scansions,                \* Verse.scansions
    scansion_count,           \* Verse.scansion_count
    pc,                       \* position in Verse.__init__ or in its caller
    meter_scheme,             \* Meter.scheme
    meter_sequences,          \* Meter.sequences (dict, in insertion order)
    meter_paths,              \* number of expansion paths that reached the end
    lines,                    \* the lines of the input file
    line_i,                   \* number of lines read so far
    output,                   \* what was printed: for every line, its prints
    frequencies,              \* LengthDictionary.frequencies
    dictionary,               \* LengthDictionary.dictionary
    length_frequencies,       \* the local of count_length_frequencies
    minimal_frequency,        \* argument of make_length_dictionary
    maximum_of_contradictions \* argument of make_length_dictionary

verse_vars == <<original_form, mode, normalized_form, tokens, scheme,
                candidate_sequences, metrical_sequences,
                full_metrical_sequences, scansions, scansion_count, pc>>

meter_vars == <<meter_scheme, meter_sequences, meter_paths>>

file_vars == <<lines, line_i, output>>

lengths_vars == <<frequencies, dictionary, length_frequencies,
                  minimal_frequency, maximum_of_contradictions>>

vars == <<verse_vars, meter_vars, file_vars, lengths_vars>>

---------------------------------------------------------------------------
(* Python helpers on sequences, indices counted from 0 as in the source.   *)

Range(s) == {s[k] : k \in 1..Len(s)}

At(s, i) == s[i + 1]

Min(a, b) == IF a < b THEN a ELSE b

Max(a, b) == IF a > b THEN a ELSE b

\* s[a:b]; a negative start counts from the end, as in Python
PySlice(s, a, b) ==
    LET lo == IF a < 0 THEN Max(Len(s) + a, 0) ELSE Min(a, Len(s))
        hi == IF b < 0 THEN Max(Len(s) + b, 0) ELSE Min(b, Len(s))
    IN  IF lo >= hi THEN <<>> ELSE SubSeq(s, lo + 1, hi)

\* s[a:]
PyFrom(s, a) == PySlice(s, a, Len(s))

\* s[:-1]
ButLast(s) == IF Len(s) = 0 THEN <<>> ELSE SubSeq(s, 1, Len(s) - 1)

RECURSIVE Flatten(_)
Flatten(ss) == IF ss = <<>> THEN <<>> ELSE Head(ss) \o Flatten(Tail(ss))

\* dict[key] = value on a dict kept as a sequence of <<key, value>> pairs in
\* insertion order: an existing key keeps its place and gets the new value
DictSet(d, key, value) ==
    IF \E k \in 1..Len(d) : d[k][1] = key
    THEN [k \in 1..Len(d) |-> IF d[k][1] = key THEN <<key, value>> ELSE d[k]]
    ELSE Append(d, <<key, value>>)

DictKeys(d) == {d[k][1] : k \in 1..Len(d)}

DictGet(d, key) == d[CHOOSE k \in 1..Len(d) : d[k][1] = key][2]

---------------------------------------------------------------------------
(* Character classes, scan.py lines 9-57.                                  *)

\* the typographic dashes and quotation marks of the source are left out
PUNCTUATION == {",", ";", ".", "?", "!", ":", " ", "\"", "'",
                "(", ")", "[", "]", "/"}

NUMBERS == {"0", "1", "2", "3", "4", "5", "6", "7", "8", "9"}

NONWORD_CHARS == PUNCTUATION \cup NUMBERS

NO_ELISION == {";", ".", "?", "!"}

VOWELS_UNKNOWN == <<"a", "e", "i", "o", "u", "y", "e:">>

VOWELS_SHORT == <<"a^", "e^", "i^", "o^", "u^">>

VOWELS_LONG == <<"a-", "e-", "i-", "o-", "u-", "y-">>

VOWELS == Range(VOWELS_UNKNOWN) \cup Range(VOWELS_SHORT) \cup Range(VOWELS_LONG)

CONSONANTS == {"b", "c", "d", "f", "g", "j", "k", "l", "m", "n", "p", "q",
               "r", "s", "t", "v", "w", "x", "z"}

WORD_CHARS == VOWELS \cup CONSONANTS \cup {"h"} \cup {"y", "^"}

ALLOWED_CHARS == NONWORD_CHARS \cup WORD_CHARS

DIPHTHONGS == {<<"a", "e">>, <<"o", "e">>, <<"a", "u">>}

EU_WORDS == {<<"n", "e", "u">>, <<"s", "e", "u">>, <<"h", "e", "u">>,
             <<"h", "e", "u", "s">>, <<"c", "e", "u">>}

UI_WORDS == {<<"c", "u", "i">>, <<"c", "u", "i", "q", "u", "e">>,
             <<"h", "u", "i">>, <<"h", "u", "i", "c">>}

ESSE_ELISION_FORMS == {<<"e", "s", "t">>, <<"e^", "s", "t">>,
                       <<"e", "s">>, <<"e^", "s">>}

PREFIXES == {<<"i", "n">>, <<"s", "u", "b">>, <<"s", "u", "p", "e", "r">>,
             <<"a", "d">>, <<"a", "n", "t", "e">>,
             <<"c", "i", "r", "c", "u", "m">>,
             <<"c", "o", "n", "t", "r", "a">>, <<"e", "x", "t", "r", "a">>,
             <<"i", "n", "t", "e", "r">>, <<"i", "n", "t", "r", "a">>,
             <<"o", "b">>, <<"p", "e", "r">>, <<"p", "o", "s", "t">>,
             <<"p", "r", "a", "e", "t", "e", "r">>, <<"s", "u", "p", "r", "a">>,
             <<"t", "r", "a", "n", "s">>, <<"a", "b">>, <<"c", "o", "n">>,
             <<"d", "e">>, <<"e">>, <<"p", "r", "a", "e">>, <<"p", "r", "o">>,
             <<"d", "i", "s">>, <<"r", "e">>}

MUTES == {"b", "p", "d", "t", "g", "c", "f"}

LIQUIDS == {"l", "r"}

MCL == {<<mute, liquid>> : mute \in MUTES, liquid \in LIQUIDS}

\* str.isupper / str.lower on the characters of the model
UpperChars == <<"A", "E", "I", "O", "U", "Y", "T", "M", "H", "S",
                "A-", "E-", "I-", "O-", "U-", "Y-",
                "A^", "E^", "I^", "O^", "U^",
                "A'", "E'", "I'", "O'", "U'", "Y'", "{AE}", "{OE}">>

LowerChars == <<"a", "e", "i", "o", "u", "y", "t", "m", "h", "s",
                "a-", "e-", "i-", "o-", "u-", "y-",
                "a^", "e^", "i^", "o^", "u^",
                "a'", "e'", "i'", "o'", "u'", "y'", "{ae}", "{oe}">>

IsUpper(char) == char \in Range(UpperChars)

Lower(char) ==
    IF IsUpper(char)
    THEN LowerChars[CHOOSE k \in 1..Len(UpperChars) : UpperChars[k] = char]
    ELSE char

Upper(char) ==
    IF char \in Range(LowerChars)
    THEN UpperChars[CHOOSE k \in 1..Len(LowerChars) : LowerChars[k] = char]
    ELSE char

---------------------------------------------------------------------------
(* Dictionaries that add or strip a length mark, scan.py lines 63-94.      *)

\* the value zip(a, b) pairs with key
ZipGet(a, b, key) == b[CHOOSE k \in 1..Min(Len(a), Len(b)) : a[k] = key]

\* ADD_MACRON[form]; form is the text of a segment
ADD_MACRON(form) ==
    IF form = <<"e:">> THEN <<"e-">>
    ELSE <<ZipGet(VOWELS_UNKNOWN, VOWELS_LONG, form[1])>>

\* ADD_BREVE[form]; y gets the combining breve as a second character
ADD_BREVE(form) ==
    IF form = <<"e:">> THEN <<"e^">>
    ELSE IF form = <<"y">> THEN <<"y", "^">>
    ELSE <<ZipGet(VOWELS_UNKNOWN, VOWELS_SHORT, form[1])>>

STRIP_DIACRITICS(char) ==
    IF char \in Range(VOWELS_LONG)
    THEN ZipGet(VOWELS_LONG, VOWELS_UNKNOWN, char)
    ELSE ZipGet(VOWELS_SHORT, VOWELS_UNKNOWN, char)

RECURSIVE RemoveBreveAfterY(_)
RemoveBreveAfterY(text) ==
    IF Len(text) < 2 THEN text
    ELSE IF text[1] = "y" /\ text[2] = "^"
         THEN <<"y">> \o RemoveBreveAfterY(SubSeq(text, 3, Len(text)))
         ELSE <<text[1]>> \o RemoveBreveAfterY(Tail(text))

strip_diacritics(text) ==
    RemoveBreveAfterY(
        [k \in 1..Len(text) |->
            IF text[k] \in Range(VOWELS_LONG) \/ text[k] \in Range(VOWELS_SHORT)
            THEN STRIP_DIACRITICS(text[k])
            ELSE text[k]])

ELEMENTS == {"o", "w", "-", "u", "|"}

---------------------------------------------------------------------------
(* Segment and Token, scan.py lines 176-217.                               *)

Segment(lowercase_form, original_case, type_, subtype, length) ==
    [lowercase_form |-> lowercase_form, original_case |-> original_case,
     type_ |-> type_, subtype |-> subtype, length |-> length,
     coda |-> "none", elided |-> FALSE]

normalize_cases(form) ==
    [k \in 1..Len(form) |-> IF IsUpper(form[k]) THEN "U" ELSE "L"]

LowerForm(form) == [k \in 1..Len(form) |-> Lower(form[k])]

Token(form, type_) ==
    [original_form |-> form, original_cases |-> normalize_cases(form),
     lowercase_form |-> LowerForm(form), type_ |-> type_,
     segments |-> <<>>]

---------------------------------------------------------------------------
(* Token.segmentize, scan.py lines 220-326.  SegmentizeRule gives the      *)
(* segments made at position i and the next position; new_i = -1 stands    *)
(* for the ValueError of the last branch.                                  *)

\* TwoConsonants with the character written in both segments
TwoConsonantsBothWritten(char, char_case) ==
    <<Segment(<<char>>, <<char_case>>, "consonant", "none", "none"),
      Segment(<<char>>, <<char_case>>, "consonant", "none", "none")>>

\* lines 268-269 and 285-286: an empty consonant before the consonant, for
\* i or j between vowels and for x and z
TwoConsonants(char, char_case) ==
    <<Segment(<<>>, <<>>, "consonant", "none", "none"),
      Segment(<<char>>, <<char_case>>, "consonant", "none", "none")>>

SegmentizeRule(form, cases, i) ==
    LET prev == At(form, i - 1)
        char == At(form, i)
        next_ == At(form, i + 1)
        char_case == At(cases, i)
        next_case == At(cases, i + 1)
        word == PySlice(form, 1, -1)
    IN  IF \/ <<char, next_>> \in DIPHTHONGS
           \/ (<<char, next_>> = <<"e", "u">> /\ word \in EU_WORDS)
           \/ (<<char, next_>> = <<"u", "i">> /\ word \in UI_WORDS)
        THEN [new |-> <<Segment(<<char, next_>>, <<char_case, next_case>>,
                                "vowel", "diphthong", "none")>>,
              new_i |-> i + 2]
        ELSE IF char \in VOWELS /\ PyFrom(form, i + 1) = <<"m", " ">>
        THEN [new |-> <<Segment(<<char, next_>>, <<char_case, next_case>>,
                                "vowel", "nasal", "none")>>,
              new_i |-> i + 2]
        ELSE IF /\ char = "i"
                /\ next_ \in VOWELS
                /\ (i = 1 \/ PySlice(form, 1, i) \in PREFIXES)
        THEN [new |-> <<Segment(<<"i">>, <<char_case>>, "consonant",
                                "none", "none")>>,
              new_i |-> i + 1]
        ELSE IF /\ (char = "i" \/ char = "j")
                /\ prev \in VOWELS
                /\ next_ \in VOWELS
                /\ PySlice(form, i - 2, i) # <<"q", "u">>
                /\ PySlice(form, i - 3, i) # <<"n", "g", "u">>
        THEN [new |-> TwoConsonants(char, char_case), new_i |-> i + 1]
        ELSE IF <<char, next_>> = <<"q", "u">>
        THEN [new |-> <<Segment(<<"q", "u">>, <<char_case, next_case>>,
                                "consonant", "none", "none")>>,
              new_i |-> i + 2]
        ELSE IF <<prev, char, next_>> = <<"n", "g", "u">>
                /\ At(form, i + 2) \in VOWELS
        THEN [new |-> <<Segment(<<"g", "u">>, <<char_case, next_case>>,
                                "consonant", "none", "none")>>,
              new_i |-> i + 2]
        ELSE IF char = "x" \/ char = "z"
        THEN [new |-> TwoConsonants(char, char_case), new_i |-> i + 1]
        ELSE IF char = "h"
        THEN [new |-> <<Segment(<<"h">>, <<char_case>>, "h", "none", "none")>>,
              new_i |-> i + 1]
        ELSE IF <<char, next_>> = <<"y", "^">>
        THEN [new |-> <<Segment(<<"y", "^">>, <<char_case, next_case>>,
                                "vowel", "monophthong", "short")>>,
              new_i |-> i + 2]
        ELSE IF char \in VOWELS
        THEN [new |-> <<Segment(<<char>>, <<char_case>>, "vowel",
                                "monophthong",
                                IF char \in Range(VOWELS_LONG) THEN "long"
                                ELSE IF char \in Range(VOWELS_SHORT)
                                     THEN "short"
                                     ELSE "unknown")>>,
              new_i |-> i + 1]
        ELSE IF char \in CONSONANTS
        THEN [new |-> <<Segment(<<char>>, <<char_case>>, "consonant",
                                "none", "none")>>,
              new_i |-> i + 1]
        ELSE [new |-> <<>>, new_i |-> -1]

\* the loop of line 233; i is where it stopped, overrun the IndexError of
\* form[i] past the closing sentinel
RECURSIVE SegmentizeWord(_, _, _, _)
SegmentizeWord(form, cases, i, segments) ==
    IF i >= Len(form)
    THEN [segments |-> <<>>, error |-> TRUE, i |-> i, overrun |-> TRUE]
    ELSE IF At(form, i) = " "
    THEN [segments |-> segments, error |-> FALSE, i |-> i, overrun |-> FALSE]
    ELSE LET step == SegmentizeRule(form, cases, i)
         IN  IF step.new_i = -1
             THEN [segments |-> <<>>, error |-> TRUE, i |-> i,
                   overrun |-> FALSE]
             ELSE SegmentizeWord(form, cases, step.new_i,
                                 segments \o step.new)

\* the segments of a token, and whether segmentize raised ValueError
segmentize(token) ==
    IF token.type_ # "word"
    THEN [segments |-> <<Segment(token.lowercase_form, token.original_cases,
                                 "other", "none", "none")>>,
          error |-> FALSE, i |-> 0, overrun |-> FALSE]
    ELSE SegmentizeWord(<<" ">> \o token.lowercase_form \o <<" ">>,
                        <<" ">> \o token.original_cases \o <<" ">>,
                        1, <<>>)

---------------------------------------------------------------------------
(* Token.brevize and Token.add_lengths, scan.py lines 329-362.             *)

brevize(segments) ==
    [k \in 1..Len(segments) |->
        IF segments[k].subtype = "monophthong" /\ segments[k].length = "unknown"
        THEN [segments[k] EXCEPT
                 !.length = "short",
                 !.lowercase_form = ADD_BREVE(segments[k].lowercase_form)]
        ELSE segments[k]]

\* the value of monophthong_i when the loop reaches segment k
MonophthongIndex(segments, k) ==
    Cardinality({j \in 1..(k - 1) : segments[j].subtype = "monophthong"})

\* the length dictionary the verses of the model are analysed with
\* (LengthDictionary.dictionary): word -> one verdict per monophthong
LENGTH_DICTIONARY ==
    <<  <<  <<"t", "a", "t", "a">>, <<"unknown", "short">>  >>,
        <<  <<"t", "y">>, <<"short">>  >>,
        <<  <<"i", "l", "l", "e">>, <<"unknown", "short">>  >>  >>

add_lengths(token, segments) ==
    LET word == strip_diacritics(token.lowercase_form)
    IN  IF word \notin DictKeys(LENGTH_DICTIONARY) THEN segments
        ELSE LET verdicts == DictGet(LENGTH_DICTIONARY, word)
             IN [k \in 1..Len(segments) |->
                  LET segment == segments[k]
                      verdict == At(verdicts, MonophthongIndex(segments, k))
                  IN  IF /\ segment.subtype = "monophthong"
                         /\ segment.length = "unknown"
                         /\ verdict # "unknown"
                      THEN IF verdict = "long"
                           THEN [segment EXCEPT
                                   !.length = "long",
                                   !.lowercase_form =
                                       ADD_MACRON(segment.lowercase_form)]
                           ELSE [segment EXCEPT
                                   !.length = "short",
                                   !.original_case =
                                       IF segment.lowercase_form = <<"y">>
                                       THEN segment.original_case \o <<"L">>
                                       ELSE segment.original_case,
                                   !.lowercase_form =
                                       ADD_BREVE(segment.lowercase_form)]
                      ELSE segment]

---------------------------------------------------------------------------
(* Verse.normalize, scan.py lines 427-452.                                 *)

\* the whitespace of the lines: the space and the newline a line of a file
\* ends with
WHITESPACE == {" ", "\n"}

RECURSIVE Strip(_)
Strip(text) ==
    IF text = <<>> THEN text
    ELSE IF Head(text) \in WHITESPACE THEN Strip(Tail(text))
    ELSE IF text[Len(text)] \in WHITESPACE THEN Strip(ButLast(text))
    ELSE text

\* unicodedata.normalize("NFC", .) on the characters of the model: a, e, i,
\* o, u followed by the combining breve become one character, in either
\* case, and so does g, whose g with breve is no character of Latin; y +
\* breve and every other consonant + breve stay two characters
Composed(char) ==
    IF char \in {"a", "e", "i", "o", "u"}
    THEN ZipGet(VOWELS_UNKNOWN, VOWELS_SHORT, char)
    ELSE IF char \in {"A", "E", "I", "O", "U"}
    THEN Upper(ZipGet(VOWELS_UNKNOWN, VOWELS_SHORT, Lower(char)))
    ELSE IF char = "g" THEN "g^"
    ELSE "G^"

NFC(text) ==
    LET Composes(k) ==
            /\ k < Len(text)
            /\ text[k + 1] = "^"
            /\ text[k] \in {"a", "e", "i", "o", "u", "A", "E", "I", "O", "U",
                            "g", "G"}
        merged == [k \in 1..Len(text) |->
                     IF k > 1 /\ Composes(k - 1) THEN ""
                     ELSE IF Composes(k) THEN Composed(text[k])
                     ELSE text[k]]
    IN  SelectSeq(merged, LAMBDA char : char # "")

\* str.replace(old, new): left to right, occurrences do not overlap
RECURSIVE Replace(_, _, _)
Replace(text, old, new) ==
    IF Len(text) < Len(old) THEN text
    ELSE IF SubSeq(text, 1, Len(old)) = old
         THEN new \o Replace(SubSeq(text, Len(old) + 1, Len(text)), old, new)
         ELSE <<text[1]>> \o Replace(Tail(text), old, new)

VOWELS_ACUTE == <<"a'", "e'", "i'", "o'", "u'", "y'">>

RECURSIVE ConvertAcute(_, _)
ConvertAcute(text, k) ==
    IF k > Len(VOWELS_ACUTE) THEN text
    ELSE ConvertAcute(
            Replace(Replace(text, <<VOWELS_ACUTE[k]>>, <<VOWELS_LONG[k]>>),
                    <<Upper(VOWELS_ACUTE[k])>>, <<Upper(VOWELS_LONG[k])>>),
            k + 1)

LIGATURES == << <<"{AE}">>, <<"{ae}">>, <<",", " ", "{OE}">>, <<"{oe}">> >>

LIGATURES_REPLACEMENTS == << <<"A", "e">>, <<"a", "e">>, <<"O", "e">>,
                             <<"o", "e">> >>

RECURSIVE ConvertLigature(_, _)
ConvertLigature(text, k) ==
    IF k > Min(Len(LIGATURES), Len(LIGATURES_REPLACEMENTS)) THEN text
    ELSE ConvertLigature(
            Replace(text, LIGATURES[k], LIGATURES_REPLACEMENTS[k]), k + 1)

normalize(text) ==
    SelectSeq(ConvertLigature(ConvertAcute(NFC(Strip(text)), 1), 1),
              LAMBDA char : Lower(char) \in ALLOWED_CHARS)

---------------------------------------------------------------------------
(* Verse.tokenize, scan.py lines 460-478.  Tokenize walks the text with    *)
(* its sentinel space; the result still holds the sentinel token.          *)

RECURSIVE TokenizeLoop(_, _, _)
TokenizeLoop(verse, word, toks) ==
    IF verse = <<>> THEN toks
    ELSE LET char == Head(verse)
         IN  IF Lower(char) \notin WORD_CHARS
             THEN TokenizeLoop(Tail(verse), <<>>,
                           (IF word # <<>>
                            THEN Append(toks, Token(word, "word"))
                            ELSE toks) \o <<Token(<<char>>, "other")>>)
             ELSE TokenizeLoop(Tail(verse), Append(word, char), toks)

tokenize(normalized) == ButLast(TokenizeLoop(normalized \o <<" ">>, <<>>, <<>>))

---------------------------------------------------------------------------
(* Verse.elide, scan.py lines 482-537.                                     *)

\* word_ids: the indices of the word tokens
WordIds(toks) ==
    LET ids == {t \in 1..Len(toks) : toks[t].type_ = "word"}
        RECURSIVE Sorted(_, _)
        Sorted(from, rest) ==
            IF rest = {} THEN <<>>
            ELSE IF from \in rest
                 THEN <<from>> \o Sorted(from + 1, rest \ {from})
                 ELSE Sorted(from + 1, rest)
    IN  Sorted(1, ids)


\* IsInterjectionO without the long-marked form
IsUnmarkedO(word) == word.lowercase_form = <<"o">>

\* lines 496-497: the interjection "o" cannot be elided
IsInterjectionO(word) ==
    word.lowercase_form = <<"o">> \/ word.lowercase_form = <<"o-">>


\* Elision without the initial h
ElisionBeforeVowelOnly(segments, next_segments) ==
    LET vowel_ending == segments[Len(segments)].type_ = "vowel"
        vowel_start == next_segments[1].type_ = "vowel"
    IN  vowel_ending /\ vowel_start

\* lines 500-507: is there an elision between the two words?
Elision(segments, next_segments) ==
    LET vowel_ending == segments[Len(segments)].type_ = "vowel"
        vowel_start == next_segments[1].type_ = "vowel"
        h_start == next_segments[1].type_ = "h"
    IN  vowel_ending /\ (vowel_start \/ h_start)


\* ElideEsse that leaves the text of the segment as it was
ElideEsseUnwrapped(toks, next_word_id) ==
    [toks EXCEPT ![next_word_id].segments[1] =
        [@ EXCEPT !.elided = TRUE,
                  !.original_case = <<"L">> \o @ \o <<"L">>]]

\* lines 512-516: the e of es(t) is elided
ElideEsse(toks, next_word_id) ==
    [toks EXCEPT ![next_word_id].segments[1] =
        [@ EXCEPT !.lowercase_form = <<"(">> \o @ \o <<")">>,
                  !.elided = TRUE,
                  !.original_case = <<"L">> \o @ \o <<"L">>]]

\* lines 522-532: the final vowel and the initial h are elided
ElideThroughH(toks, word_id, next_word_id) ==
    [toks EXCEPT
        ![word_id].segments[Len(toks[word_id].segments)] =
            [@ EXCEPT !.lowercase_form = <<"(">> \o @,
                      !.original_case = <<"L">> \o @,
                      !.elided = TRUE],
        ![next_word_id].segments[1] =
            [@ EXCEPT !.lowercase_form = @ \o <<")">>,
                      !.original_case = @ \o <<"L">>,
                      !.elided = TRUE]]

\* lines 522-526 and 534-535: the final vowel is elided
ElideFinalVowel(toks, word_id) ==
    [toks EXCEPT
        ![word_id].segments[Len(toks[word_id].segments)] =
            [@ EXCEPT !.lowercase_form = <<"(">> \o @ \o <<")">>,
                      !.original_case = <<"L">> \o @ \o <<"L">>,
                      !.elided = TRUE]]

\* the body of the loop for the pair (word_id, next_word_id)
ElidePair(toks, word_id, next_word_id) ==
    LET word == toks[word_id]
        next_word == toks[next_word_id]
    IN  IF IsInterjectionO(word) THEN toks
        ELSE IF ~Elision(word.segments, next_word.segments) THEN toks
        ELSE IF next_word.lowercase_form \in ESSE_ELISION_FORMS
        THEN ElideEsse(toks, next_word_id)
        ELSE IF next_word.segments[1].type_ = "h"
        THEN ElideThroughH(toks, word_id, next_word_id)
        ELSE ElideFinalVowel(toks, word_id)

RECURSIVE ElideFrom(_, _, _)
ElideFrom(toks, word_ids, i) ==
    IF i + 1 > Len(word_ids) - 1 THEN toks
    ELSE ElideFrom(ElidePair(toks, At(word_ids, i), At(word_ids, i + 1)),
                   word_ids, i + 1)

elide(toks) == ElideFrom(toks, WordIds(toks), 0)

---------------------------------------------------------------------------
(* Verse.analyse_codas, scan.py lines 547-587.  this_vowel is the place    *)
(* <<token, segment>> of the vowel whose coda is being analysed, <<0, 0>>  *)
(* for the sentinel Segment().                                             *)

Positions(toks) ==
    Flatten([t \in 1..Len(toks) |->
                [g \in 1..Len(toks[t].segments) |-> <<t, g>>]])

SetCoda(toks, this_vowel, coda) ==
    IF this_vowel = <<0, 0>> THEN toks
    ELSE [toks EXCEPT ![this_vowel[1]].segments[this_vowel[2]].coda = coda]


\* Coda that takes a syllable for open only when no consonant follows
CodaWithoutOneConsonant(consonant_count, chunk) ==
    IF consonant_count = 0 \/ (chunk # <<>> /\ chunk[1] = " ")
    THEN "open"
    ELSE IF chunk \in MCL THEN "unknown"
    ELSE "closed"

\* lines 567-574: the coda of a vowel that another vowel follows
Coda(consonant_count, chunk) ==
    IF consonant_count <= 1 \/ (chunk # <<>> /\ chunk[1] = " ")
    THEN "open"
    ELSE IF chunk \in MCL THEN "unknown"
    ELSE "closed"

RECURSIVE CodaLoop(_, _, _, _, _, _)
CodaLoop(toks, places, k, this_vowel, consonant_count, chunk) ==
    IF k > Len(places)
    THEN \* analyse the last syllable specially
         SetCoda(toks, this_vowel,
                 IF consonant_count = 0 THEN "open" ELSE "closed")
    ELSE LET segment == toks[places[k][1]].segments[places[k][2]]
         IN  IF segment.type_ = "consonant"
             THEN CodaLoop(toks, places, k + 1, this_vowel,
                           consonant_count + 1,
                           chunk \o segment.lowercase_form)
             ELSE IF segment.lowercase_form = <<" ">>
             THEN CodaLoop(toks, places, k + 1, this_vowel,
                           consonant_count, chunk \o <<" ">>)
             ELSE IF segment.type_ = "vowel" /\ ~segment.elided
             THEN CodaLoop(
                     SetCoda(toks, this_vowel, Coda(consonant_count, chunk)),
                     places, k + 1, places[k], 0, <<>>)
             ELSE CodaLoop(toks, places, k + 1, this_vowel,
                           consonant_count, chunk)

analyse_codas(toks) == CodaLoop(toks, Positions(toks), 1, <<0, 0>>, 0, <<>>)

---------------------------------------------------------------------------
(* Verse.make_scheme, scan.py lines 622-647.                               *)


\* SchemeChar without the test of the elided flag
SchemeCharOfElided(segment) ==
    IF segment.type_ = "vowel"
    THEN IF \/ segment.subtype = "diphthong"
            \/ segment.subtype = "nasal"
            \/ segment.length = "long"
            \/ segment.coda = "closed"
         THEN <<"-">>
         ELSE IF segment.length = "short" /\ segment.coda = "open"
         THEN <<"u">>
         ELSE <<"o">>
    ELSE <<>>

\* the character a segment adds to the scheme (<<>> if it adds none)
SchemeChar(segment) ==
    IF segment.type_ = "vowel" /\ ~segment.elided
    THEN IF \/ segment.subtype = "diphthong"
            \/ segment.subtype = "nasal"
            \/ segment.length = "long"
            \/ segment.coda = "closed"
         THEN <<"-">>
         ELSE IF segment.length = "short" /\ segment.coda = "open"
         THEN <<"u">>
         ELSE <<"o">>
    ELSE <<>>

make_scheme(toks) ==
    LET places == Positions(toks)
    IN  Flatten([k \in 1..Len(places) |->
                    SchemeChar(toks[places[k][1]].segments[places[k][2]])])

---------------------------------------------------------------------------
(* Verse.generate_candidate_sequences, scan.py lines 650-663.              *)

RECURSIVE CandidateAddSequence(_, _)
CandidateAddSequence(sequence, remainder) ==
    IF remainder = <<>> THEN {sequence}
    ELSE IF Head(remainder) = "o"
         THEN CandidateAddSequence(Append(sequence, "-"), Tail(remainder))
              \cup CandidateAddSequence(Append(sequence, "u"), Tail(remainder))
         ELSE CandidateAddSequence(Append(sequence, Head(remainder)),
                                   Tail(remainder))

generate_candidate_sequences(sch) == CandidateAddSequence(<<>>, sch)

---------------------------------------------------------------------------
(* Meter.generate_metrical_sequences, scan.py lines 136-164.  The state of *)
(* the expansion is the dict built so far and the number of paths that     *)
(* reached the end of the scheme (each stores one entry).                  *)


\* StripBoundaries that keeps the long syllables only
StripBoundariesLongOnly(sequence) ==
    SelectSeq(sequence, LAMBDA char : char = "-")

\* line 144: only syllable lengths, without feet boundaries
StripBoundaries(sequence) ==
    SelectSeq(sequence, LAMBDA char : char \in {"-", "u"})


\* MeterExpand with one short syllable for the dactyl
MeterExpandOneShort(element) ==
    IF element = "o" THEN << <<"-">>, <<"u">> >>
    ELSE IF element = "w" THEN << <<"-">>, <<"u">> >>
    ELSE << <<element>> >>

\* MeterExpand with a short syllable in place of the long one
MeterExpandShortShort(element) ==
    IF element = "o" THEN << <<"-">>, <<"u">> >>
    ELSE IF element = "w" THEN << <<"u">>, <<"u", "u">> >>
    ELSE << <<element>> >>

\* the alternatives an element of the scheme expands to
MeterExpand(element) ==
    IF element = "o" THEN << <<"-">>, <<"u">> >>
    ELSE IF element = "w" THEN << <<"-">>, <<"u", "u">> >>
    ELSE << <<element>> >>

\* add_sequence: the sequences with which the expansion reaches the end of
\* the scheme, in the order of the calls
RECURSIVE MeterAddSequence(_, _)
MeterAddSequence(sequence, remainder) ==
    IF remainder = <<>> THEN <<sequence>>
    ELSE LET alternatives == MeterExpand(Head(remainder))
         IN  IF Len(alternatives) = 1
             THEN MeterAddSequence(sequence \o alternatives[1],
                                   Tail(remainder))
             ELSE MeterAddSequence(sequence \o alternatives[1],
                                   Tail(remainder))
                  \o MeterAddSequence(sequence \o alternatives[2],
                                      Tail(remainder))

\* line 147 for the first k of them: sequences[sequence_lengths] = sequence
RECURSIVE MeterStore(_, _)
MeterStore(paths, k) ==
    IF k = 0 THEN <<>>
    ELSE DictSet(MeterStore(paths, k - 1), StripBoundaries(paths[k]),
                 paths[k])

generate_metrical_sequences(sch) ==
    LET paths == MeterAddSequence(<<>>,
                     SelectSeq(sch, LAMBDA char : char \in ELEMENTS))
    IN  [sequences |-> MeterStore(paths, Len(paths)), paths |-> Len(paths)]

\* the scheme of HEXAMETER: "-w | -w | -w | -w | -uu | -o"
HEXAMETER_SCHEME ==
    <<"-", "w", " ", "|", " ", "-", "w", " ", "|", " ", "-", "w", " ", "|",
      " ", "-", "w", " ", "|", " ", "-", "u", "u", " ", "|", " ", "-", "o">>

HEXAMETER == generate_metrical_sequences(HEXAMETER_SCHEME)

---------------------------------------------------------------------------
(* Verse.find_metrical_sequences, scan.py lines 666-699.                   *)

\* code points of the characters of a sequence, for Python's string order
CodePoint(char) ==
    IF char = "-" THEN 45
    ELSE IF char = "o" THEN 111
    ELSE IF char = "u" THEN 117
    ELSE 124

RECURSIVE StrLess(_, _)
StrLess(a, b) ==
    IF a = <<>> THEN b # <<>>
    ELSE IF b = <<>> THEN FALSE
    ELSE IF Head(a) = Head(b) THEN StrLess(Tail(a), Tail(b))
    ELSE CodePoint(Head(a)) < CodePoint(Head(b))

\* sorted(set of strings)
RECURSIVE sorted(_)
sorted(strings) ==
    IF strings = {} THEN <<>>
    ELSE LET least == CHOOSE a \in strings :
                         \A b \in strings \ {a} : StrLess(a, b)
         IN  <<least>> \o sorted(strings \ {least})

\* the candidates that are keys of the dict of the meter
LegalCandidates(candidates, sequences) == candidates \cap DictKeys(sequences)


\* Mergeable that compares the lengths only
MergeableByLength(this, next_) == Len(this) = Len(next_)

\* may this and next_ be merged?
Mergeable(this, next_) ==
    Len(this) = Len(next_) /\ ButLast(this) = ButLast(next_)


\* Merged without dropping the last element
MergedKeepsLast(this) == this \o <<"o">>

\* the entry that stands for the merged pair
Merged(this) == ButLast(this) \o <<"o">>

RECURSIVE MergeLoop(_, _, _)
MergeLoop(sequences, i, merged_sequences) ==
    IF i < Len(sequences) - 1
    THEN LET this == At(sequences, i)
             next_ == At(sequences, i + 1)
         IN  IF Mergeable(this, next_)
             THEN MergeLoop(sequences, i + 2,
                            Append(merged_sequences, Merged(this)))
             ELSE MergeLoop(sequences, i + 1,
                            Append(merged_sequences, this))
    ELSE IF i = Len(sequences) - 1
         THEN Append(merged_sequences, sequences[Len(sequences)])
         ELSE merged_sequences

merge_sequences(sequences) == MergeLoop(sequences, 0, <<>>)


\* FullSequences that looks the merged list up
FullSequencesOfMerged(sequences, chosen) ==
    LET kept == SelectSeq(sequences,
                    LAMBDA item : item[1] \in Range(merge_sequences(chosen)))
    IN  [k \in 1..Len(kept) |-> kept[k][2]]

\* the values of the dict, in its order, whose key is in the list
FullSequences(sequences, chosen) ==
    LET kept == SelectSeq(sequences, LAMBDA item : item[1] \in Range(chosen))
    IN  [k \in 1..Len(kept) |-> kept[k][2]]

---------------------------------------------------------------------------
(* restore_cases, scan.py lines 166-173, and Verse.scan, lines 701-798.    *)

\* zip stops at the shorter of the form and its case flags
restore_cases(lowercase_form, original_cases) ==
    [k \in 1..Min(Len(lowercase_form), Len(original_cases)) |->
        IF original_cases[k] = "U" THEN Upper(lowercase_form[k])
        ELSE lowercase_form[k]]

\* " " * n
Spaces(n) == [k \in 1..n |-> " "]

\* str.find(char): the index of the first occurrence, -1 if there is none
Find(text, char) ==
    IF \E k \in 1..Len(text) : text[k] = char
    THEN (CHOOSE k \in 1..Len(text) :
             text[k] = char /\ \A j \in 1..(k - 1) : text[j] # char) - 1
    ELSE -1

\* sequence[i] with Python's negative indices
PyAt(s, i) == IF i < 0 THEN s[Len(s) + i + 1] ELSE s[i + 1]

\* str.startswith(prefix)
StartsWith(text, prefix) ==
    Len(text) >= Len(prefix) /\ SubSeq(text, 1, Len(prefix)) = prefix

\* the sentinel Segment() of lines 551 and 714
SENTINEL == Segment(<<>>, <<>>, "none", "none", "none")

\* PlaceBoundary that marks a boundary only where the chunk has a space
PlaceBoundaryAtSpaceOnly(chunk, chunk_elision, prev_vowel, sequence, i) ==
    LET chunk_sequence == Spaces(Len(chunk))
        space_id == Find(chunk, " ")
    IN  IF space_id # -1 /\ ~chunk_elision
        THEN [chunk |-> PySlice(chunk, 0, space_id) \o <<" ", "|", " ">>
                        \o PyFrom(chunk, space_id + 1),
              chunk_sequence |->
                  PySlice(chunk_sequence, 0, space_id) \o <<" ", "|", " ">>
                  \o PyFrom(chunk_sequence, space_id + 1),
              error |-> FALSE]
        ELSE [chunk |-> chunk, chunk_sequence |-> chunk_sequence,
              error |-> FALSE]

\* lines 725-747: the chunk and its aligned blanks with the foot boundary
\* put in; error stands for the IndexError of chunk[0] on an empty chunk
PlaceBoundary(chunk, chunk_elision, prev_vowel, sequence, i) ==
    LET chunk_sequence == Spaces(Len(chunk))
        space_id == Find(chunk, " ")
        lower == LowerForm(chunk)
    IN  IF space_id # -1 /\ ~chunk_elision
        THEN [chunk |-> PySlice(chunk, 0, space_id) \o <<" ", "|", " ">>
                        \o PyFrom(chunk, space_id + 1),
              chunk_sequence |->
                  PySlice(chunk_sequence, 0, space_id) \o <<" ", "|", " ">>
                  \o PyFrom(chunk_sequence, space_id + 1),
              error |-> FALSE]
        ELSE IF \/ prev_vowel.coda = "open"
                \/ /\ prev_vowel.coda = "unknown"
                   /\ \/ PyAt(sequence, i - 1) = "u"
                      \/ prev_vowel.length = "long"
                      \/ prev_vowel.subtype = "diphthong"
                \/ lower \in {<<"x">>, <<"z">>, <<"i">>}
                \/ StartsWith(lower, <<"x", "(">>)
                \/ StartsWith(lower, <<"z", "(">>)
                \/ StartsWith(lower, <<"i", "(">>)
        THEN [chunk |-> <<"|">> \o chunk,
              chunk_sequence |-> <<"|">> \o chunk_sequence,
              error |-> FALSE]
        ELSE IF chunk = <<>>
        THEN [chunk |-> chunk, chunk_sequence |-> chunk_sequence,
              error |-> TRUE]
        ELSE IF prev_vowel.coda = "unknown"
        THEN [chunk |-> <<chunk[1], "\\">> \o Tail(chunk),
              chunk_sequence |-> <<chunk_sequence[1], "\\">>
                                 \o Tail(chunk_sequence),
              error |-> FALSE]
        ELSE [chunk |-> <<chunk[1], "|">> \o Tail(chunk),
              chunk_sequence |-> <<chunk_sequence[1], "|">>
                                 \o Tail(chunk_sequence),
              error |-> FALSE]

\* lines 757-768: the form of the vowel under the symbol of the sequence
RenderVowel(segment, symbol) ==
    IF /\ segment.subtype = "monophthong"
       /\ segment.length = "unknown"
       /\ \/ segment.coda = "open"
          \/ (segment.coda = "unknown" /\ symbol = "u")
    THEN IF symbol = "-" THEN ADD_MACRON(segment.lowercase_form)
         ELSE IF symbol = "u" THEN ADD_BREVE(segment.lowercase_form)
         ELSE segment.lowercase_form
    ELSE segment.lowercase_form

\* the state of scan_in_one_way at its start, lines 705-714
ScanStart ==
    [text |-> <<>>, aligned_sequence |-> <<>>, i |-> 0, chunk |-> <<>>,
     chunk_elision |-> FALSE, prev_vowel |-> SENTINEL, error |-> FALSE]

\* lines 719-778: a vowel that is not elided; an index past the end of the
\* sequence is the IndexError of sequence[i]
ScanVowel(segment, sequence, st) ==
    IF st.i >= Len(sequence) THEN [st EXCEPT !.error = TRUE]
    ELSE
    LET at_boundary == PyAt(sequence, st.i) = "|"
        flushed == IF at_boundary
                   THEN PlaceBoundary(st.chunk, st.chunk_elision,
                                      st.prev_vowel, sequence, st.i)
                   ELSE [chunk |-> st.chunk,
                         chunk_sequence |-> Spaces(Len(st.chunk)),
                         error |-> FALSE]
        i == IF at_boundary THEN st.i + 1 ELSE st.i
    IN  IF flushed.error \/ i >= Len(sequence)
        THEN [st EXCEPT !.error = TRUE]
        ELSE LET new == RenderVowel(segment, PyAt(sequence, i))
             IN  [text |-> st.text \o flushed.chunk
                           \o restore_cases(new, segment.original_case),
                  aligned_sequence |->
                      st.aligned_sequence \o flushed.chunk_sequence
                      \o <<PyAt(sequence, i)>>
                      \o (IF Len(new) = 2 /\ new # <<"y", "^">>
                          THEN <<" ">> ELSE <<>>),
                  i |-> i + 1,
                  chunk |-> <<>>,
                  chunk_elision |-> FALSE,
                  prev_vowel |-> segment,
                  error |-> FALSE]

\* lines 780-783: any other segment goes to the chunk
ScanOther(segment, st) ==
    [st EXCEPT
        !.chunk = @ \o restore_cases(segment.lowercase_form,
                                     segment.original_case),
        !.chunk_elision = @ \/ segment.elided]

RECURSIVE ScanLoop(_, _, _, _, _)
ScanLoop(toks, places, k, sequence, st) ==
    IF st.error THEN st
    ELSE IF k > Len(places)
    THEN \* lines 786-787: the chunk after the last vowel
         [st EXCEPT !.text = @ \o st.chunk,
                    !.aligned_sequence = @ \o Spaces(Len(st.chunk))]
    ELSE LET segment == toks[places[k][1]].segments[places[k][2]]
         IN  IF segment.type_ = "vowel" /\ ~segment.elided
             THEN ScanLoop(toks, places, k + 1, sequence,
                           ScanVowel(segment, sequence, st))
             ELSE ScanLoop(toks, places, k + 1, sequence,
                           ScanOther(segment, st))

scan_in_one_way(toks, sequence) ==
    ScanLoop(toks, Positions(toks), 1, sequence, ScanStart)

\* scan with the text declared outside scan_in_one_way: a reading starts
\* with the text of the readings before it
scanSharingText(toks, sch, full_sequences) ==
    LET sequences == <<sch>> \o full_sequences
        alone == [k \in 1..Len(sequences) |->
                     scan_in_one_way(toks, sequences[k])]
    IN  [k \in 1..Len(sequences) |->
            [alone[k] EXCEPT
                !.text = Flatten([j \in 1..k |-> alone[j].text])]]

\* lines 792-796: the scheme first, then every reading
scan(toks, sch, full_sequences) ==
    <<scan_in_one_way(toks, sch)>>
    \o [k \in 1..Len(full_sequences) |->
           scan_in_one_way(toks, full_sequences[k])]

---------------------------------------------------------------------------
(* The inputs: verses made of words of a small lexicon.                    *)

MaxWords == 2

MaxTailWords == 4

MaxSchemeLen == 3

\* words of the short verses: o, o with macron, o with breve, Ta, tam, est,
\* est with breve, est with macron, es, he, ty
Lexicon ==
    { <<"o">>, <<"o-">>, <<"o^">>, <<"T", "a">>, <<"t", "a", "m">>,
      <<"e", "s", "t">>, <<"e^", "s", "t">>, <<"e-", "s", "t">>,
      <<"e", "s">>, <<"h", "e">>, <<"t", "y">> }

\* what stands between two words
Separators == { <<" ">>, <<",", " ">>, <<";", " ">> }

RECURSIVE ShortVersesOf(_)
ShortVersesOf(n) ==
    IF n = 1 THEN Lexicon
    ELSE {verse \o sep \o word :
             verse \in ShortVersesOf(n - 1), sep \in Separators,
             word \in Lexicon}

ShortVerses == UNION {ShortVersesOf(n) : n \in 1..MaxWords}

\* how the long verses begin: ta-tatatata (a long vowel and four unmarked
\* ones), ta-tatatatatata (a long vowel and six unmarked ones), ta-ta- ta-ta
Openings ==
    { <<"t", "a-", "t", "a", "t", "a", "t", "a", "t", "a">>,
      <<"t", "a-", "t", "a", "t", "a", "t", "a", "t", "a", "t", "a",
        "t", "a">>,
      <<"t", "a-", "t", "a-", " ", "t", "a-", "t", "a">> }

\* the words they go on with: ta-ta, ta-ta-, ta-ta^ta^
TailLexicon ==
    { <<"t", "a-", "t", "a">>, <<"t", "a-", "t", "a-">>,
      <<"t", "a-", "t", "a^", "t", "a^">> }

RECURSIVE LongVersesOf(_)
LongVersesOf(n) ==
    IF n = 0 THEN Openings
    ELSE {verse \o <<" ">> \o word :
             verse \in LongVersesOf(n - 1), word \in TailLexicon}

LongVerses == LongVersesOf(MaxTailWords - 1) \cup LongVersesOf(MaxTailWords)

\* whole lines: ta-tatatatatatatatatata ta-ta^ta^ ta-ta- (six readings), the
\* same ending in ta-ta (six merged readings), ta- ty ta ... (y read short),
\* a line ending in ta-ta est, ta-tatra- ... (muta cum liquida), ta-tta- ...
\* (a closed syllable), ta-xa- ... (x)
FullVerses ==
    LET ta_ta == <<"t", "a-", "t", "a-">>
        ta_tata == <<"t", "a-", "t", "a^", "t", "a^">>
        sp == <<" ">>
        close == sp \o ta_tata \o sp \o ta_ta
        spondees == sp \o ta_ta \o sp \o ta_ta \o sp \o ta_ta
        free == <<"t", "a-", "t", "a", "t", "a", "t", "a", "t", "a", "t", "a",
                  "t", "a", "t", "a", "t", "a", "t", "a">>
    IN  { free \o close,
          free \o sp \o ta_tata \o sp \o <<"t", "a-", "t", "a">>,
          <<"t", "a-", " ", "t", "y", " ", "t", "a">> \o spondees \o close,
          ta_ta \o spondees \o sp \o ta_tata \o sp
              \o <<"t", "a-", "t", "a", " ", "e", "s", "t">>,
          <<"t", "a-", "t", "a", "t", "r", "a-", " ", "t", "a-">>
              \o sp \o ta_ta \o sp \o ta_ta \o close,
          <<"t", "a-", "t", "t", "a-">> \o spondees \o close,
          <<"T", "a-", "x", "a-">> \o spondees \o close }

Verses == ShortVerses \cup LongVerses \cup FullVerses

\* words that meet with and without a space between them: ta, tata, sta,
\* tas, qua, he, tra
CodaLexicon ==
    { <<"t", "a">>, <<"t", "a", "t", "a">>, <<"s", "t", "a">>,
      <<"t", "a", "s">>, <<"q", "u", "a">>, <<"h", "e">>,
      <<"t", "r", "a">> }

CodaSeparators == { <<" ">>, <<",">>, <<",", " ">>, <<"1">> }

\* words with ligatures, an acute and a combining breve after a consonant
MarkLexicon ==
    { <<"t", "{ae}">>, <<"t", "{oe}">>, <<"{AE}", "t", "a">>,
      <<"{OE}", "t", "a">>, <<"t", "a">>, <<"T", "a'">>,
      <<"t", "^", "a">> }

MarkSeparators == { <<" ">>, <<",", " ">> }

RECURSIVE VersesOf(_, _, _)
VersesOf(lexicon, separators, n) ==
    IF n = 1 THEN lexicon
    ELSE {verse \o sep \o word :
             verse \in VersesOf(lexicon, separators, n - 1),
             sep \in separators, word \in lexicon}

WordVerses ==
    UNION {VersesOf(CodaLexicon, CodaSeparators, n)
               \cup VersesOf(MarkLexicon, MarkSeparators, n) :
           n \in 1..MaxWords}

Modes == {"plain", "unmarked_short", "dictionary"}

RECURSIVE Strings(_, _)
Strings(alphabet, n) ==
    IF n = 0 THEN {<<>>}
    ELSE LET shorter == Strings(alphabet, n - 1)
         IN  shorter \cup {Append(str, char) :
                              str \in shorter, char \in alphabet}

MeterSchemes ==
    Strings(ELEMENTS \cup {" "}, MaxSchemeLen) \cup {HEXAMETER_SCHEME}

---------------------------------------------------------------------------
(* Verse.__init__, scan.py lines 394-422: one action per pass.             *)

Init ==
    /\ original_form \in Verses
    /\ mode \in Modes
    /\ normalized_form = <<>>
    /\ tokens = <<>>
    /\ scheme = <<>>
    /\ candidate_sequences = {}
    /\ metrical_sequences = <<>>
    /\ full_metrical_sequences = <<>>
    /\ scansions = <<>>
    /\ scansion_count = -1
    /\ pc = "normalize"
    /\ meter_scheme = HEXAMETER_SCHEME
    /\ meter_sequences = HEXAMETER.sequences
    /\ meter_paths = HEXAMETER.paths
    /\ lines = <<>>
    /\ line_i = 0
    /\ output = <<>>
    /\ frequencies = <<>>
    /\ length_frequencies = <<>>
    /\ dictionary = <<>>
    /\ minimal_frequency = 20
    /\ maximum_of_contradictions = 3

Normalize ==
    /\ pc = "normalize"
    /\ normalized_form' = normalize(original_form)
    /\ pc' = "tokenize"
    /\ UNCHANGED <<original_form, mode, tokens, scheme, candidate_sequences,
                   metrical_sequences, full_metrical_sequences, scansions,
                   scansion_count, meter_vars, file_vars, lengths_vars>>

Tokenize ==
    /\ pc = "tokenize"
    /\ tokens' = tokenize(normalized_form)
    /\ pc' = "segmentize"
    /\ UNCHANGED <<original_form, mode, normalized_form, scheme,
                   candidate_sequences, metrical_sequences,
                   full_metrical_sequences, scansions, scansion_count,
                   meter_vars, file_vars, lengths_vars>>

\* the segments a token has after its turn in the loop of lines 410-416
TokenSegments(token) ==
    LET segments == segmentize(token).segments
    IN  IF mode = "unmarked_short" THEN brevize(segments)
        ELSE IF mode = "dictionary" THEN add_lengths(token, segments)
        ELSE segments

\* the loop stops at the first token whose segmentize raises ValueError
SegmentizeTokens ==
    /\ pc = "segmentize"
    /\ LET failing == {t \in 1..Len(tokens) : segmentize(tokens[t]).error}
           done == {t \in 1..Len(tokens) : \A f \in failing : t < f}
       IN  /\ tokens' = [t \in 1..Len(tokens) |->
                           IF t \in done
                           THEN [tokens[t] EXCEPT
                                    !.segments = TokenSegments(tokens[t])]
                           ELSE tokens[t]]
           /\ pc' = IF failing = {} THEN "elide" ELSE "ValueError"
    /\ UNCHANGED <<original_form, mode, normalized_form, scheme,
                   candidate_sequences, metrical_sequences,
                   full_metrical_sequences, scansions, scansion_count,
                   meter_vars, file_vars, lengths_vars>>

Elide ==
    /\ pc = "elide"
    /\ tokens' = elide(tokens)
    /\ pc' = "analyse_codas"
    /\ UNCHANGED <<original_form, mode, normalized_form, scheme,
                   candidate_sequences, metrical_sequences,
                   full_metrical_sequences, scansions, scansion_count,
                   meter_vars, file_vars, lengths_vars>>

AnalyseCodas ==
    /\ pc = "analyse_codas"
    /\ tokens' = analyse_codas(tokens)
    /\ pc' = "make_scheme"
    /\ UNCHANGED <<original_form, mode, normalized_form, scheme,
                   candidate_sequences, metrical_sequences,
                   full_metrical_sequences, scansions, scansion_count,
                   meter_vars, file_vars, lengths_vars>>

MakeScheme ==
    /\ pc = "make_scheme"
    /\ scheme' = make_scheme(tokens)
    /\ pc' = "generate_candidate_sequences"
    /\ UNCHANGED <<original_form, mode, normalized_form, tokens,
                   candidate_sequences, metrical_sequences,
                   full_metrical_sequences, scansions, scansion_count,
                   meter_vars, file_vars, lengths_vars>>

GenerateCandidateSequences ==
    /\ pc = "generate_candidate_sequences"
    /\ candidate_sequences' = generate_candidate_sequences(scheme)
    /\ pc' = "find_metrical_sequences"
    /\ UNCHANGED <<original_form, mode, normalized_form, tokens, scheme,
                   metrical_sequences, full_metrical_sequences, scansions,
                   scansion_count, meter_vars, file_vars, lengths_vars>>

FindMetricalSequences ==
    /\ pc = "find_metrical_sequences"
    /\ LET chosen == sorted(LegalCandidates(candidate_sequences,
                                            meter_sequences))
       IN  /\ metrical_sequences' = merge_sequences(chosen)
           /\ full_metrical_sequences' =
                  merge_sequences(FullSequences(meter_sequences, chosen))
    /\ pc' = "scan"
    /\ UNCHANGED <<original_form, mode, normalized_form, tokens, scheme,
                   candidate_sequences, scansions, scansion_count, meter_vars,
                   file_vars, lengths_vars>>


\* ScansionCount that counts the rendering of the scheme as a reading
ScansionCountWithScheme(rendered) == Len(rendered)

\* line 797: minus the scansion with the scheme
ScansionCount(rendered) == Len(rendered) - 1

\* an IndexError of scan_in_one_way leaves the verse without its scansions
Scan ==
    /\ pc = "scan"
    /\ LET rendered == scan(tokens, scheme, full_metrical_sequences)
       IN  IF \E k \in 1..Len(rendered) : rendered[k].error
           THEN /\ pc' = "IndexError"
                /\ UNCHANGED <<scansions, scansion_count>>
           ELSE /\ scansions' = [k \in 1..Len(rendered) |->
                                   <<rendered[k].text,
                                     rendered[k].aligned_sequence>>]
                /\ scansion_count' = ScansionCount(rendered)
                /\ pc' = "constructed"
    /\ UNCHANGED <<original_form, mode, normalized_form, tokens, scheme,
                   candidate_sequences, metrical_sequences,
                   full_metrical_sequences, meter_vars, file_vars,
                   lengths_vars>>

Next ==
    \/ Normalize
    \/ Tokenize
    \/ SegmentizeTokens
    \/ Elide
    \/ AnalyseCodas
    \/ MakeScheme
    \/ GenerateCandidateSequences
    \/ FindMetricalSequences
    \/ Scan

Spec == Init /\ [][Next]_vars

\* the same passes for the verses of WordVerses
InitWords ==
    /\ original_form \in WordVerses
    /\ mode \in Modes
    /\ normalized_form = <<>>
    /\ tokens = <<>>
    /\ scheme = <<>>
    /\ candidate_sequences = {}
    /\ metrical_sequences = <<>>
    /\ full_metrical_sequences = <<>>
    /\ scansions = <<>>
    /\ scansion_count = -1
    /\ pc = "normalize"
    /\ meter_scheme = HEXAMETER_SCHEME
    /\ meter_sequences = HEXAMETER.sequences
    /\ meter_paths = HEXAMETER.paths
    /\ lines = <<>>
    /\ line_i = 0
    /\ output = <<>>
    /\ frequencies = <<>>
    /\ length_frequencies = <<>>
    /\ dictionary = <<>>
    /\ minimal_frequency = 20
    /\ maximum_of_contradictions = 3

SpecWords == InitWords /\ [][Next]_vars

---------------------------------------------------------------------------
(* Meter.__init__, scan.py lines 126-129, for a scheme of the meter.       *)

InitMeter ==
    /\ meter_scheme \in MeterSchemes
    /\ meter_sequences = <<>>
    /\ meter_paths = 0
    /\ pc = "generate_metrical_sequences"
    /\ original_form = <<>>
    /\ mode = "plain"
    /\ normalized_form = <<>>
    /\ tokens = <<>>
    /\ scheme = <<>>
    /\ candidate_sequences = {}
    /\ metrical_sequences = <<>>
    /\ full_metrical_sequences = <<>>
    /\ scansions = <<>>
    /\ scansion_count = -1
    /\ lines = <<>>
    /\ line_i = 0
    /\ output = <<>>
    /\ frequencies = <<>>
    /\ length_frequencies = <<>>
    /\ dictionary = <<>>
    /\ minimal_frequency = 20
    /\ maximum_of_contradictions = 3

GenerateMetricalSequences ==
    /\ pc = "generate_metrical_sequences"
    /\ LET built == generate_metrical_sequences(meter_scheme)
       IN  /\ meter_sequences' = built.sequences
           /\ meter_paths' = built.paths
    /\ pc' = "meter_built"
    /\ UNCHANGED <<original_form, mode, normalized_form, tokens, scheme,
                   candidate_sequences, metrical_sequences,
                   full_metrical_sequences, scansions, scansion_count,
                   meter_scheme, file_vars, lengths_vars>>

NextMeter == GenerateMetricalSequences

SpecMeter == InitMeter /\ [][NextMeter]_vars

---------------------------------------------------------------------------
(* LengthDictionary.make_length_dictionary, lengths.py lines 93-121.       *)

MaxTally == 21

\* a vowel of the tallies: Tally(long, short, unknown)
Tally(long, short, unknown) ==
    [long |-> long, short |-> short, unknown |-> unknown]

\* the verdict when the tally has to exceed minimal_frequency
VerdictAbove(vowel, minimal, maximum) ==
    IF vowel.long > minimal /\ vowel.short <= maximum THEN "long"
    ELSE IF vowel.short > minimal /\ vowel.long <= maximum THEN "short"
    ELSE "unknown"

\* lines 105-117: the verdict on one vowel
Verdict(vowel, minimal, maximum) ==
    IF vowel.long >= minimal /\ vowel.short <= maximum THEN "long"
    ELSE IF vowel.short >= minimal /\ vowel.long <= maximum THEN "short"
    ELSE "unknown"

\* lines 101-120: the words with a safe vowel, in the order of the tallies
make_length_dictionary(counted, minimal, maximum) ==
    LET verdicts == [k \in 1..Len(counted) |->
                       <<counted[k][1],
                         [v \in 1..Len(counted[k][2]) |->
                             Verdict(counted[k][2][v],
                                     minimal, maximum)]>>]
    IN  SelectSeq(verdicts, LAMBDA entry :
            \E v \in 1..Len(entry[2]) : entry[2][v] # "unknown")

\* tallies around the default thresholds
CoarseCounts == {0, 1, 3, 4, MaxTally - 2, MaxTally - 1}

\* the tallies of a word with one monophthong, every pair of counts, and
\* of a word with two, counts around the thresholds
TallyCorpora ==
    {<<  <<  <<"t", "a">>, <<Tally(long, short, 0)>>  >>  >> :
         long \in 0..MaxTally, short \in 0..MaxTally}
    \cup
    {<<  <<  <<"t", "a", "t", "a">>,
             <<Tally(first[1], first[2], 1), Tally(second[1], second[2], 0)>>
         >>,
         <<  <<"t", "a">>, <<Tally(first[2], first[1], 0)>>  >>  >> :
         first \in CoarseCounts \X CoarseCounts,
         second \in CoarseCounts \X CoarseCounts}

\* minimal_frequency and maximum_of_contradictions; <<20, 3>> the defaults
Thresholds == {<<20, 3>>, <<20, 0>>, <<1, 0>>, <<4, 1>>}

InitDictionary ==
    /\ frequencies \in TallyCorpora
    /\ \E thresholds \in Thresholds :
           /\ minimal_frequency = thresholds[1]
           /\ maximum_of_contradictions = thresholds[2]
    /\ dictionary = <<>>
    /\ length_frequencies = <<>>
    /\ pc = "make_length_dictionary"
    /\ original_form = <<>>
    /\ mode = "plain"
    /\ normalized_form = <<>>
    /\ tokens = <<>>
    /\ scheme = <<>>
    /\ candidate_sequences = {}
    /\ metrical_sequences = <<>>
    /\ full_metrical_sequences = <<>>
    /\ scansions = <<>>
    /\ scansion_count = -1
    /\ meter_scheme = HEXAMETER_SCHEME
    /\ meter_sequences = HEXAMETER.sequences
    /\ meter_paths = HEXAMETER.paths
    /\ lines = <<>>
    /\ line_i = 0
    /\ output = <<>>

MakeLengthDictionary ==
    /\ pc = "make_length_dictionary"
    /\ dictionary' = make_length_dictionary(frequencies, minimal_frequency,
                                            maximum_of_contradictions)
    /\ pc' = "dictionary_made"
    /\ UNCHANGED <<original_form, mode, normalized_form, tokens, scheme,
                   candidate_sequences, metrical_sequences,
                   full_metrical_sequences, scansions, scansion_count,
                   meter_vars, file_vars, frequencies, length_frequencies,
                   minimal_frequency, maximum_of_contradictions>>

NextDictionary == MakeLengthDictionary

SpecDictionary == InitDictionary /\ [][NextDictionary]_vars

---------------------------------------------------------------------------
(* Reading the lines of a file: the loops of lengths.py lines 82-88 and    *)
(* of app.py lines 43-59 make a new Verse of every line.                   *)

MaxLines == 2

RECURSIVE Corpora(_, _)
Corpora(verses, n) ==
    IF n = 0 THEN {<<>>}
    ELSE LET shorter == Corpora(verses, n - 1)
         IN  shorter \cup {Append(corpus, verse) :
                              corpus \in shorter, verse \in verses}

\* Verse(line, ...): the fields of a new Verse, scan.py lines 397-406
ReadLine ==
    /\ pc = "read_line"
    /\ line_i < Len(lines)
    /\ line_i' = line_i + 1
    /\ original_form' = lines[line_i + 1]
    /\ normalized_form' = <<>>
    /\ tokens' = <<>>
    /\ scheme' = <<>>
    /\ candidate_sequences' = {}
    /\ metrical_sequences' = <<>>
    /\ full_metrical_sequences' = <<>>
    /\ scansions' = <<>>
    /\ scansion_count' = -1
    /\ pc' = "normalize"
    /\ UNCHANGED <<mode, lines, output, meter_vars, lengths_vars>>

---------------------------------------------------------------------------
(* LengthDictionary.count_length_frequencies, lengths.py lines 19-90.      *)

\* lines 31-36: a tally for every monophthong of the word
NewTallies(segments) ==
    [k \in 1..Cardinality({g \in 1..Len(segments) :
                              segments[g].subtype = "monophthong"}) |->
        Tally(0, 0, 0)]

\* the state of count_length_frequencies_for_verse at its start
CountStart(counted) ==
    [length_frequencies |-> counted, sequence_i |-> 0, vowel_i |-> 0,
     error |-> FALSE]

\* lines 40-65: one segment; length_frequencies[form][vowel_i] past the end
\* of the list is an IndexError
CountSegment(form, segment, sequence, st) ==
    LET vowels == DictGet(st.length_frequencies, form)
        field == IF ~segment.elided
                 THEN IF segment.length \in {"long", "short"}
                      THEN segment.length
                      ELSE IF PyAt(sequence, st.sequence_i) = "u"
                      THEN "short"
                      ELSE IF /\ PyAt(sequence, st.sequence_i) = "-"
                              /\ segment.coda = "open"
                      THEN "long"
                      ELSE "unknown"
                 ELSE IF segment.length \in {"long", "short"}
                      THEN segment.length
                      ELSE "unknown"
        sequence_i == IF segment.type_ = "vowel" /\ ~segment.elided
                      THEN st.sequence_i + 1 ELSE st.sequence_i
    IN  IF segment.subtype # "monophthong"
        THEN [st EXCEPT !.sequence_i = sequence_i]
        ELSE IF \/ st.vowel_i >= Len(vowels)
                \/ /\ ~segment.elided
                   /\ segment.length \notin {"long", "short"}
                   /\ st.sequence_i >= Len(sequence)
        THEN [st EXCEPT !.error = TRUE]
        ELSE [st EXCEPT
                 !.length_frequencies =
                     DictSet(@, form,
                             [vowels EXCEPT ![st.vowel_i + 1][field] = @ + 1]),
                 !.vowel_i = @ + 1,
                 !.sequence_i = sequence_i]

RECURSIVE CountSegments(_, _, _, _, _)
CountSegments(form, segments, g, sequence, st) ==
    IF st.error \/ g > Len(segments) THEN st
    ELSE CountSegments(form, segments, g + 1, sequence,
                       CountSegment(form, segments[g], sequence, st))

\* lines 23-38: a word token; a form met for the first time gets its tallies
CountToken(token, sequence, st) ==
    LET form == strip_diacritics(token.lowercase_form)
        initialized ==
            IF form \in DictKeys(st.length_frequencies)
            THEN st.length_frequencies
            ELSE DictSet(st.length_frequencies, form,
                         NewTallies(token.segments))
    IN  IF token.type_ # "word" THEN st
        ELSE CountSegments(form, token.segments, 1, sequence,
                           [st EXCEPT !.length_frequencies = initialized,
                                      !.vowel_i = 0])

RECURSIVE CountTokens(_, _, _, _)
CountTokens(toks, t, sequence, st) ==
    IF st.error \/ t > Len(toks) THEN st
    ELSE CountTokens(toks, t + 1, sequence, CountToken(toks[t], sequence, st))

count_length_frequencies_for_verse(counted, toks, sequence) ==
    CountTokens(toks, 1, sequence, CountStart(counted))

\* verses that scan in one way: taeta with the diphthong ae, the same
\* letters as three marked monophthongs, and marked words only; a verse of
\* six readings, which the loop passes over
LearnVerses ==
    LET ta_ta == <<"t", "a-", "t", "a-">>
        sp == <<" ">>
        close == sp \o ta_ta \o sp \o ta_ta \o sp
                 \o <<"t", "a-", "t", "a^", "t", "a^">> \o sp \o ta_ta
                 \o <<"\n">>
    IN  { <<"t", "a-", " ", "t", "a^", " ", "t", "a^", " ",
            "t", "a", "e", "t", "a">> \o close,
          <<"t", "a-", " ", "t", "a^", "e^", "t", "a-", " ", "t", "a-">>
              \o close,
          ta_ta \o sp \o ta_ta \o close,
          <<"t", "a-", "t", "a", "t", "a", "t", "a", "t", "a", "t", "a",
            "t", "a", "t", "a", "t", "a", "t", "a", " ",
            "t", "a-", "t", "a^", "t", "a^", " ", "t", "a-", "t", "a-",
            "\n">> }

InitLearn ==
    /\ lines \in Corpora(LearnVerses, MaxLines)
    /\ line_i = 0
    /\ output = <<>>
    /\ length_frequencies = <<>>
    /\ frequencies = <<>>
    /\ dictionary = <<>>
    /\ \E thresholds \in {<<20, 3>>, <<1, 0>>} :
           /\ minimal_frequency = thresholds[1]
           /\ maximum_of_contradictions = thresholds[2]
    /\ pc = "read_line"
    /\ original_form = <<>>
    /\ mode = "plain"
    /\ normalized_form = <<>>
    /\ tokens = <<>>
    /\ scheme = <<>>
    /\ candidate_sequences = {}
    /\ metrical_sequences = <<>>
    /\ full_metrical_sequences = <<>>
    /\ scansions = <<>>
    /\ scansion_count = -1
    /\ meter_scheme = HEXAMETER_SCHEME
    /\ meter_sequences = HEXAMETER.sequences
    /\ meter_paths = HEXAMETER.paths

\* lines 85-88: only a verse with one metrical sequence is counted; the
\* IndexError of the count ends the loop
CountLengthFrequencies ==
    /\ pc = "constructed"
    /\ IF Len(metrical_sequences) = 1
       THEN LET counted == count_length_frequencies_for_verse(
                               length_frequencies, tokens,
                               metrical_sequences[1])
            IN  IF counted.error
                THEN /\ pc' = "IndexError"
                     /\ UNCHANGED length_frequencies
                ELSE /\ pc' = "read_line"
                     /\ length_frequencies' = counted.length_frequencies
       ELSE /\ pc' = "read_line"
            /\ UNCHANGED length_frequencies
    /\ UNCHANGED <<original_form, mode, normalized_form, tokens, scheme,
                   candidate_sequences, metrical_sequences,
                   full_metrical_sequences, scansions, scansion_count,
                   meter_vars, file_vars, frequencies, dictionary,
                   minimal_frequency, maximum_of_contradictions>>

\* line 89, after the last line: self.frequencies = length_frequencies
StoreFrequencies ==
    /\ pc = "read_line"
    /\ line_i = Len(lines)
    /\ frequencies' = length_frequencies
    /\ pc' = "make_length_dictionary"
    /\ UNCHANGED <<original_form, mode, normalized_form, tokens, scheme,
                   candidate_sequences, metrical_sequences,
                   full_metrical_sequences, scansions, scansion_count,
                   meter_vars, file_vars, dictionary, length_frequencies,
                   minimal_frequency, maximum_of_contradictions>>

\* the tallies of a corpus, then the dictionary, as in
\* make_default_length_dictionary, lengths.py lines 157-163; the thresholds
\* are the arguments of make_length_dictionary
NextLearn ==
    \/ ReadLine
    \/ Normalize
    \/ Tokenize
    \/ SegmentizeTokens
    \/ Elide
    \/ AnalyseCodas
    \/ MakeScheme
    \/ GenerateCandidateSequences
    \/ FindMetricalSequences
    \/ Scan
    \/ CountLengthFrequencies
    \/ StoreFrequencies
    \/ MakeLengthDictionary

SpecLearn == InitLearn /\ [][NextLearn]_vars

---------------------------------------------------------------------------
(* The loop of app.py, lines 43-59, and Verse.print_scansions, scan.py     *)
(* lines 800-825.  No exception of Verse() is caught in the loop.          *)

\* str(i) of the number of a reading
DecimalDigits == <<"1", "2", "3", "4", "5", "6", "7", "8", "9">>

\* lines 816-823: the readings with their numbers, an empty print between
PrintReadings(readings, count) ==
    Flatten([i \in 1..Len(readings) |->
                <<  <<DecimalDigits[i], ".", " ">> \o readings[i][1],
                    <<" ", " ", " ">> \o readings[i][2]  >>
                \o (IF i # count THEN <<  <<>>  >> ELSE <<>>)])

\* what print_scansions prints to the standard output, one entry per print
print_scansions(form, readings, count) ==
    IF Len(form) < 10 THEN <<form>>
    ELSE IF count = 0 THEN <<readings[1][1], readings[1][2]>>
    ELSE IF count = 1 THEN <<readings[2][1], readings[2][2]>>
    ELSE PrintReadings(Tail(readings), count)

\* a number of a verse, which is printed as it is; a word with a combining
\* breve after its consonant, which no rule of the segmenter takes; a verse
\* with too few syllables, one with one reading and one with six
AppLines ==
    LET ta_ta == <<"t", "a-", "t", "a-">>
        sp == <<" ">>
        close == sp \o <<"t", "a-", "t", "a^", "t", "a^">> \o sp \o ta_ta
                 \o <<"\n">>
    IN  { <<"1", "2", "\n">>,
          <<"t", "^", "a", " ", "t", "a", "\n">>,
          ta_ta \o sp \o ta_ta \o sp \o ta_ta \o <<"\n">>,
          ta_ta \o sp \o ta_ta \o sp \o ta_ta \o sp \o ta_ta \o close,
          <<"t", "a-", "t", "a", "t", "a", "t", "a", "t", "a", "t", "a",
            "t", "a", "t", "a", "t", "a", "t", "a">> \o close }

InitApp ==
    /\ lines \in Corpora(AppLines, MaxLines)
    /\ line_i = 0
    /\ output = <<>>
    /\ mode \in Modes
    /\ pc = "read_line"
    /\ original_form = <<>>
    /\ normalized_form = <<>>
    /\ tokens = <<>>
    /\ scheme = <<>>
    /\ candidate_sequences = {}
    /\ metrical_sequences = <<>>
    /\ full_metrical_sequences = <<>>
    /\ scansions = <<>>
    /\ scansion_count = -1
    /\ meter_scheme = HEXAMETER_SCHEME
    /\ meter_sequences = HEXAMETER.sequences
    /\ meter_paths = HEXAMETER.paths
    /\ frequencies = <<>>
    /\ length_frequencies = <<>>
    /\ dictionary = <<>>
    /\ minimal_frequency = 20
    /\ maximum_of_contradictions = 3

\* app.py lines 48-49 and 58-59: verse.print_scansions(), then print()
PrintScansions ==
    /\ pc = "constructed"
    /\ output' = Append(output,
                        print_scansions(original_form, scansions,
                                        scansion_count) \o <<  <<>>  >>)
    /\ pc' = "read_line"
    /\ UNCHANGED <<original_form, mode, normalized_form, tokens, scheme,
                   candidate_sequences, metrical_sequences,
                   full_metrical_sequences, scansions, scansion_count,
                   lines, line_i, meter_vars, lengths_vars>>

NextApp ==
    \/ ReadLine
    \/ Normalize
    \/ Tokenize
    \/ SegmentizeTokens
    \/ Elide
    \/ AnalyseCodas
    \/ MakeScheme
    \/ GenerateCandidateSequences
    \/ FindMetricalSequences
    \/ Scan
    \/ PrintScansions

SpecApp == InitApp /\ [][NextApp]_vars

---------------------------------------------------------------------------
(* Token.segmentize on every short word of a small alphabet: the verse is  *)
(* one word, normalized and tokenized.                                     *)

MaxWordLen == 4

\* vowels, the letters of the diphthongs, of the nasal ending, of qu and
\* ngu, x with its two consonants, h, y and the combining breve
WordAlphabet == {"a", "e", "i", "u", "m", "n", "g", "q", "x", "h", "y", "^"}

SegmentWords == Strings(WordAlphabet, MaxWordLen) \ {<<>>}

InitSegments ==
    /\ original_form \in SegmentWords
    /\ mode = "plain"
    /\ normalized_form = normalize(original_form)
    /\ tokens = tokenize(normalized_form)
    /\ pc = "segmentize"
    /\ scheme = <<>>
    /\ candidate_sequences = {}
    /\ metrical_sequences = <<>>
    /\ full_metrical_sequences = <<>>
    /\ scansions = <<>>
    /\ scansion_count = -1
    /\ meter_scheme = HEXAMETER_SCHEME
    /\ meter_sequences = HEXAMETER.sequences
    /\ meter_paths = HEXAMETER.paths
    /\ lines = <<>>
    /\ line_i = 0
    /\ output = <<>>
    /\ frequencies = <<>>
    /\ length_frequencies = <<>>
    /\ dictionary = <<>>
    /\ minimal_frequency = 20
    /\ maximum_of_contradictions = 3

NextSegments == SegmentizeTokens

SpecSegments == InitSegments /\ [][NextSegments]_vars

---------------------------------------------------------------------------
(* Properties.                                                             *)

\* the passes of Verse.__init__ that have been run
Elided == pc \in {"analyse_codas", "make_scheme",
                  "generate_candidate_sequences", "find_metrical_sequences",
                  "scan", "constructed"}

CodasAnalysed == pc \in {"make_scheme", "generate_candidate_sequences",
                         "find_metrical_sequences", "scan", "constructed"}

SchemeMade == pc \in {"generate_candidate_sequences",
                      "find_metrical_sequences", "scan", "constructed"}

SequencesFound == pc \in {"scan", "constructed"}

Scanned == pc = "constructed"

MeterBuilt == pc = "meter_built"

\* all segments of the verse, in order
AllSegments ==
    LET places == Positions(tokens)
    IN  [k \in 1..Len(places) |-> tokens[places[k][1]].segments[places[k][2]]]

\* a sequence without its foot boundaries
WithoutBars(sequence) == SelectSeq(sequence, LAMBDA char : char # "|")

\* the pairs <<w1, w2>> of indices of consecutive word tokens
WordPairs ==
    LET word_ids == WordIds(tokens)
    IN  {<<word_ids[k], word_ids[k + 1]>> : k \in 1..(Len(word_ids) - 1)}

\* some token between the two words is one of the marks of NO_ELISION
Blocked(pair) ==
    \E t \in (pair[1] + 1)..(pair[2] - 1) :
        tokens[t].lowercase_form[1] \in {";", ".", "?", "!"}

LastSegment(t) == tokens[t].segments[Len(tokens[t].segments)]

FirstSegment(t) == tokens[t].segments[1]

\* the first word ends in a vowel, the second begins with a vowel or h
VowelMeetsVowel(pair) ==
    /\ LastSegment(pair[1]).type_ = "vowel"
    /\ FirstSegment(pair[2]).type_ \in {"vowel", "h"}

\* the word is o in some length-marking state
IsAnyO(t) == strip_diacritics(tokens[t].lowercase_form) = <<"o">>

\* C1: once the scheme is made, it has exactly one character for every
\* vowel segment that is not elided; an elided vowel adds none.
C1_SchemeLength ==
    SchemeMade =>
        Len(scheme) =
            Cardinality({k \in 1..Len(AllSegments) :
                            /\ AllSegments[k].type_ = "vowel"
                            /\ ~AllSegments[k].elided})

\* a scheme has been made for a verse that has an elided vowel and a vowel
\* that is not elided
C1_Witness ==
    /\ SchemeMade
    /\ Len(scheme) >= 1
    /\ \E k \in 1..Len(AllSegments) :
          AllSegments[k].type_ = "vowel" /\ AllSegments[k].elided

\* is the reading, foot boundaries removed, a key of the dict of the meter?
IsLegalKey(reading) == WithoutBars(reading) \in DictKeys(meter_sequences)

\* C2 as stated: every reading left after find_metrical_sequences is,
\* without its foot boundaries, a key of HEXAMETER.sequences.
C2_ReadingsAreKeys ==
    SequencesFound =>
        /\ \A k \in 1..Len(full_metrical_sequences) :
              IsLegalKey(full_metrical_sequences[k])
        /\ \A k \in 1..Len(metrical_sequences) :
              IsLegalKey(metrical_sequences[k])

\* does the reading stand for legal keys: is it a key, or does it end in the
\* "o" of a merge with both its "-" and its "u" form being keys?
StandsForKeys(reading) ==
    LET lengths == WithoutBars(reading)
    IN  \/ lengths \in DictKeys(meter_sequences)
        \/ /\ lengths # <<>>
           /\ lengths[Len(lengths)] = "o"
           /\ Append(ButLast(lengths), "-") \in DictKeys(meter_sequences)
           /\ Append(ButLast(lengths), "u") \in DictKeys(meter_sequences)

\* C2 amended: every reading left after find_metrical_sequences is, without
\* its foot boundaries, a key of HEXAMETER.sequences, or it is the merge of
\* two keys: it ends in "o", and with "-" and with "u" in place of that "o"
\* it is a key.
C2_ReadingsStandForKeys ==
    SequencesFound =>
        /\ \A k \in 1..Len(full_metrical_sequences) :
              StandsForKeys(full_metrical_sequences[k])
        /\ \A k \in 1..Len(metrical_sequences) :
              StandsForKeys(metrical_sequences[k])

\* a verse with a reading that is the merge of two keys
C2_Witness ==
    /\ SequencesFound
    /\ \E k \in 1..Len(full_metrical_sequences) :
          /\ full_metrical_sequences[k][Len(full_metrical_sequences[k])] = "o"
          /\ ~IsLegalKey(full_metrical_sequences[k])

\* C3: after elide, of two consecutive words of which the first ends in a
\* vowel and is not o (unmarked, long-marked or short-marked), the second
\* begins with a vowel or h, and no mark that
\* prevents elision stands between them, either the final vowel of the
\* first is elided or the second is an es(t) form whose first segment is
\* elided.
C3_ElisionHappens ==
    Elided =>
        \A pair \in WordPairs :
            (VowelMeetsVowel(pair) /\ ~IsAnyO(pair[1]) /\ ~Blocked(pair)) =>
                \/ LastSegment(pair[1]).elided
                \/ /\ tokens[pair[2]].lowercase_form \in ESSE_ELISION_FORMS
                   /\ FirstSegment(pair[2]).elided

\* elide has run on a verse with a word that ends in a vowel before a word
\* that begins with h, nothing but a space between them
C3_Witness ==
    /\ Elided
    /\ \E pair \in WordPairs :
          /\ VowelMeetsVowel(pair) /\ ~IsAnyO(pair[1]) /\ ~Blocked(pair)
          /\ FirstSegment(pair[2]).type_ = "h"
          /\ LastSegment(pair[1]).elided

\* C4 as stated: after elide, of two consecutive words with a mark that
\* prevents elision between them, neither the final vowel of the first nor
\* the first segment of the second is elided.
C4_NoElisionAcrossPunctuation ==
    Elided =>
        \A pair \in WordPairs :
            Blocked(pair) =>
                /\ LastSegment(pair[1]).type_ = "vowel"
                      => ~LastSegment(pair[1]).elided
                /\ ~FirstSegment(pair[2]).elided

\* C5 as stated: after elide, a word o in any length-marking state that is
\* followed by another word has no elided segment.
C5_AnyONotElided ==
    Elided =>
        \A pair \in WordPairs :
            IsAnyO(pair[1]) =>
                \A g \in 1..Len(tokens[pair[1]].segments) :
                    ~tokens[pair[1]].segments[g].elided

\* C5 amended: after elide, a word o that is unmarked or long-marked and is
\* followed by another word has no elided segment, whatever the following
\* word begins with.
C5_LongOrUnmarkedONotElided ==
    Elided =>
        \A pair \in WordPairs :
            tokens[pair[1]].lowercase_form \in {<<"o">>, <<"o-">>} =>
                \A g \in 1..Len(tokens[pair[1]].segments) :
                    ~tokens[pair[1]].segments[g].elided

\* elide has run on a verse where a long-marked o stands before a word that
\* begins with a vowel or h
C5_Witness ==
    /\ Elided
    /\ \E pair \in WordPairs :
          /\ tokens[pair[1]].lowercase_form = <<"o-">>
          /\ VowelMeetsVowel(pair)
          /\ ~LastSegment(pair[1]).elided

\* the pair is one elide acts on: the first word is not the o of lines
\* 496-497, it ends in a vowel, and the second begins with a vowel or h
ElisionPair(pair) ==
    /\ tokens[pair[1]].lowercase_form \notin {<<"o">>, <<"o-">>}
    /\ VowelMeetsVowel(pair)

\* what elide does to a pair whose second word is an es(t) form: the first
\* segment of the second word is elided and its text put in parentheses, no
\* other segment of the second word changes, and the final vowel of the
\* first word is left as it was, not elided
EsseElided(pair) ==
    LET w1 == pair[1]
        w2 == pair[2]
        last == Len(tokens[w1].segments)
    IN  /\ tokens'[w2].segments[1].elided
        /\ tokens'[w2].segments[1].lowercase_form =
              <<"(">> \o tokens[w2].segments[1].lowercase_form \o <<")">>
        /\ \A g \in 2..Len(tokens[w2].segments) :
              tokens'[w2].segments[g] = tokens[w2].segments[g]
        /\ ~tokens'[w1].segments[last].elided
        /\ tokens'[w1].segments[last] = tokens[w1].segments[last]

\* C6 as stated: when elide acts on a pair whose second word is est or es
\* with its e unmarked, short-marked or long-marked, exactly the first
\* segment of the second word is elided and the first word is left alone.
C6_AnyEsseElided ==
    [][Elide =>
          \A pair \in WordPairs :
              (/\ ElisionPair(pair)
               /\ strip_diacritics(tokens[pair[2]].lowercase_form)
                     \in {<<"e", "s", "t">>, <<"e", "s">>})
                  => EsseElided(pair)]_vars

\* C6 amended: when elide acts on a pair whose second word is est or es with
\* its e unmarked or short-marked, exactly the first segment of the second
\* word is elided and put in parentheses, and the final vowel of the first
\* word stays unelided with its text unchanged.
C6_ShortOrUnmarkedEsseElided ==
    [][Elide =>
          \A pair \in WordPairs :
              (/\ ElisionPair(pair)
               /\ tokens[pair[2]].lowercase_form
                     \in {<<"e", "s", "t">>, <<"e^", "s", "t">>,
                          <<"e", "s">>, <<"e^", "s">>})
                  => EsseElided(pair)]_vars

\* elide has run on a verse where a word that ends in a vowel stands before
\* a short-marked est, and the e of est is elided
C6_Witness ==
    /\ Elided
    /\ \E pair \in WordPairs :
          /\ ElisionPair(pair)
          /\ tokens[pair[2]].lowercase_form = <<"e^", "s", "t">>
          /\ FirstSegment(pair[2]).elided
          /\ ~LastSegment(pair[1]).elided

\* C7: after find_metrical_sequences the two lists have the same number of
\* entries, and entry by entry the full sequence without its foot
\* boundaries is the length-only sequence.
C7_ListsAligned ==
    SequencesFound =>
        /\ Len(metrical_sequences) = Len(full_metrical_sequences)
        /\ \A k \in 1..Len(metrical_sequences) :
              WithoutBars(full_metrical_sequences[k]) = metrical_sequences[k]

\* a verse with several readings, the first of them a merged one
C7_Witness ==
    /\ SequencesFound
    /\ Len(metrical_sequences) >= 2
    /\ Len(full_metrical_sequences) >= 2
    /\ metrical_sequences[1][Len(metrical_sequences[1])] = "o"

\* C8: merging the lists left by find_metrical_sequences once more changes
\* nothing.
C8_MergeIdempotent ==
    SequencesFound =>
        /\ merge_sequences(metrical_sequences) = metrical_sequences
        /\ merge_sequences(full_metrical_sequences) = full_metrical_sequences

\* a verse whose candidates were merged into several readings of the same
\* number of syllables
C8_Witness ==
    /\ SequencesFound
    /\ \E j, k \in 1..Len(metrical_sequences) :
          /\ j # k
          /\ Len(metrical_sequences[j]) = Len(metrical_sequences[k])
          /\ metrical_sequences[j][Len(metrical_sequences[j])] = "o"
          /\ metrical_sequences[k][Len(metrical_sequences[k])] = "o"

\* the feet of a full sequence: its parts between the foot boundaries
RECURSIVE Feet(_, _)
Feet(sequence, foot) ==
    IF sequence = <<>> THEN <<foot>>
    ELSE IF Head(sequence) = "|" THEN <<foot>> \o Feet(Tail(sequence), <<>>)
    ELSE Feet(Tail(sequence), Append(foot, Head(sequence)))

\* six feet, the first four spondees or dactyls, the fifth a dactyl
FiveFeetAndOne(feet) ==
    /\ Len(feet) = 6
    /\ \A k \in 1..4 : feet[k] \in {<<"-", "-">>, <<"-", "u", "u">>}
    /\ feet[5] = <<"-", "u", "u">>

C10_PathsHaveOwnKeys ==
    MeterBuilt =>
        /\ meter_paths = Len(meter_sequences)
        /\ \A k \in 1..Len(meter_sequences) :
              WithoutBars(meter_sequences[k][2]) = meter_sequences[k][1]
        /\ meter_scheme = HEXAMETER_SCHEME =>
              meter_paths = 32 /\ Cardinality(DictKeys(meter_sequences)) = 32

\* the hexameter has been expanded along its 32 paths
C10_Witness ==
    /\ MeterBuilt
    /\ meter_scheme = HEXAMETER_SCHEME
    /\ meter_paths = 32

---------------------------------------------------------------------------
(* The expansion of one foot.                                              *)

\* the dict of the meter has exactly these keys, and as many values
HasKeys(keys) ==
    /\ DictKeys(meter_sequences) = keys
    /\ Cardinality({meter_sequences[k][2] : k \in 1..Len(meter_sequences)})
           = Cardinality(keys)

\* C11 as stated: the Meter of the scheme "w", the symbol of the choice
\* between long and short-short, has exactly the two keys "--" and "-uu",
\* with two distinct full forms.
C11_FootSymbolGivesFootKeys ==
    (MeterBuilt /\ meter_scheme = <<"w">>) =>
        HasKeys({<<"-", "-">>, <<"-", "u", "u">>})

\* C11: the Meter of the scheme "w" has exactly the two keys "-" and "uu",
\* and the Meter of the scheme "-w", a whole foot, has exactly the two keys
\* "--" and "-uu"; in both the two keys have two distinct full forms.
C11_FootSymbolAndFootKeys ==
    MeterBuilt =>
        /\ meter_scheme = <<"w">> => HasKeys({<<"-">>, <<"u", "u">>})
        /\ meter_scheme = <<"-", "w">> =>
               HasKeys({<<"-", "-">>, <<"-", "u", "u">>})

\* the Meter of the scheme "w" has been expanded into two entries
C11_Witness ==
    /\ MeterBuilt
    /\ meter_scheme = <<"w">>
    /\ Len(meter_sequences) = 2

---------------------------------------------------------------------------
(* Codas.                                                                  *)

\* the segment at a place <<token, segment>>
SegmentAt(place) == tokens[place[1]].segments[place[2]]

\* is the k-th segment of the verse a vowel that is not elided?
IsLiveVowel(k) ==
    LET segment == SegmentAt(Positions(tokens)[k])
    IN  segment.type_ = "vowel" /\ ~segment.elided

\* the position of the next vowel that is not elided, 0 if there is none
NextLiveVowel(k) ==
    LET later == {m \in (k + 1)..Len(Positions(tokens)) : IsLiveVowel(m)}
    IN  IF later = {} THEN 0
        ELSE CHOOSE m \in later : \A n \in later : m <= n

\* the positions of the consonant segments between two positions
ConsonantsBetween(k, m) ==
    {j \in (k + 1)..(m - 1) :
        SegmentAt(Positions(tokens)[j]).type_ = "consonant"}

\* the vowels a vowel follows
FollowedVowels ==
    {k \in 1..Len(Positions(tokens)) : IsLiveVowel(k) /\ NextLiveVowel(k) # 0}

\* C12: after analyse_codas, a vowel that is not elided and has exactly one
\* consonant segment between it and the next vowel that is not elided has
\* the coda "open", in the same word or across words.
C12_OneConsonantOpen ==
    CodasAnalysed =>
        \A k \in FollowedVowels :
            Cardinality(ConsonantsBetween(k, NextLiveVowel(k))) = 1 =>
                SegmentAt(Positions(tokens)[k]).coda = "open"

\* a vowel is followed by the single consonant qu of the next word, and
\* another by a single consonant of its own word
C12_Witness ==
    /\ CodasAnalysed
    /\ \E k \in FollowedVowels :
          \E j \in ConsonantsBetween(k, NextLiveVowel(k)) :
              /\ ConsonantsBetween(k, NextLiveVowel(k)) = {j}
              /\ SegmentAt(Positions(tokens)[j]).lowercase_form = <<"q", "u">>
              /\ Positions(tokens)[j][1] # Positions(tokens)[k][1]
              /\ SegmentAt(Positions(tokens)[k]).coda = "open"
    /\ \E k \in FollowedVowels :
          \E j \in ConsonantsBetween(k, NextLiveVowel(k)) :
              /\ ConsonantsBetween(k, NextLiveVowel(k)) = {j}
              /\ Positions(tokens)[j][1] = Positions(tokens)[k][1]

\* is the k-th segment of the verse the last segment of its word?
EndsItsWord(k) ==
    LET place == Positions(tokens)[k]
    IN  /\ tokens[place[1]].type_ = "word"
        /\ place[2] = Len(tokens[place[1]].segments)

\* C13 as stated: a vowel that ends its word and is not the last vowel of
\* the verse has the coda "open" whatever stands between the words and
\* however many consonants the next word begins with; and a vowel followed
\* by two or more consonants, the first of them in its own word, has not.
C13_NextWordClusterOpen ==
    CodasAnalysed =>
        \A k \in FollowedVowels :
            LET between == ConsonantsBetween(k, NextLiveVowel(k))
                coda == SegmentAt(Positions(tokens)[k]).coda
            IN  /\ EndsItsWord(k) => coda = "open"
                /\ (/\ Cardinality(between) >= 2
                    /\ \E j \in between :
                          Positions(tokens)[j][1] = Positions(tokens)[k][1])
                       => coda # "open"

---------------------------------------------------------------------------
(* Ligatures.                                                              *)

\* the text with each of the four ligatures replaced by its two letters
LigaturesExpanded(text) ==
    Flatten([k \in 1..Len(text) |->
                IF text[k] = "{ae}" THEN <<"a", "e">>
                ELSE IF text[k] = "{oe}" THEN <<"o", "e">>
                ELSE IF text[k] = "{AE}" THEN <<"A", "e">>
                ELSE IF text[k] = "{OE}" THEN <<"O", "e">>
                ELSE <<text[k]>>])

\* C14 as stated: the normalized form is the text with every ligature
\* replaced by its two letters and no other character touched by that step
\* (the steps before and after it as in normalize).
C14_LigaturesReplaced ==
    pc # "normalize" =>
        normalized_form =
            SelectSeq(LigaturesExpanded(
                          ConvertAcute(NFC(Strip(original_form)), 1)),
                      LAMBDA char : Lower(char) \in ALLOWED_CHARS)

---------------------------------------------------------------------------
(* The round trip through the rendered text.                               *)

\* the tokens of a new Verse of the text, under the same options, when its
\* scheme is made; <<>> if a token cannot be segmented
Reanalysed(text) ==
    LET toks == tokenize(normalize(text))
    IN  IF \E t \in 1..Len(toks) : segmentize(toks[t]).error THEN <<>>
        ELSE analyse_codas(elide(
                 [t \in 1..Len(toks) |->
                     [toks[t] EXCEPT !.segments = TokenSegments(toks[t])]]))

\* the vowel segments that are not elided, in order, without length marks
LiveVowelLetters(toks) ==
    LET places == Positions(toks)
        live == SelectSeq(places, LAMBDA place :
                    /\ toks[place[1]].segments[place[2]].type_ = "vowel"
                    /\ ~toks[place[1]].segments[place[2]].elided)
    IN  [k \in 1..Len(live) |->
            strip_diacritics(
                toks[live[k][1]].segments[live[k][2]].lowercase_form)]

\* C15 as stated: the text of every reading of a verse, analysed again as a
\* new verse, has the same vowel segments that are not elided, in the same
\* order, as the verse itself (length marks and foot boundaries ignored),
\* also when the verse has elisions.
C15_RoundTrip ==
    Scanned =>
        \A k \in 2..Len(scansions) :
            LiveVowelLetters(Reanalysed(scansions[k][1]))
                = LiveVowelLetters(tokens)


-----------------------------------------------------------------------------
\* C19: for every verse, scansion_count, the number of readings reported
\* after merging, is at most 6, and it is 0 whenever the scheme has fewer
\* than 13 or more than 17 characters.
C19_AtMostSixReadings ==
    Scanned =>
        /\ scansion_count <= 6
        /\ (Len(scheme) < 13 \/ Len(scheme) > 17) => scansion_count = 0

\* a verse of fifteen syllables, ten of them free, has all six readings
C19_Witness ==
    /\ Scanned
    /\ Len(scheme) = 15
    /\ scansion_count = 6


-----------------------------------------------------------------------------
(* The letters of a reading and the diacritics the pattern implies.        *)

\* what scan_in_one_way puts between and around the segments
RenderingMarks == {" ", "|", "\\", "(", ")"}

Letters(text) ==
    SelectSeq(LowerForm(text), LAMBDA char : char \notin RenderingMarks)

\* the vowel as the statement renders it under the symbol of the pattern:
\* with the mark of the symbol, or as it stands in the verse
ClaimedVowel(segment, symbol) ==
    IF /\ segment.subtype = "monophthong"
       /\ segment.length = "unknown"
       /\ \/ segment.coda = "open"
          \/ (segment.coda = "unknown" /\ symbol = "u")
       /\ symbol \in {"-", "u"}
    THEN IF symbol = "-" THEN ADD_MACRON(segment.lowercase_form)
         ELSE ADD_BREVE(segment.lowercase_form)
    ELSE restore_cases(segment.lowercase_form, segment.original_case)

\* the letters of the verse read by the sequence, every vowel that is not
\* elided under its own symbol
ClaimedLetters(toks, sequence) ==
    LET places == Positions(toks)
        symbols == SelectSeq(sequence, LAMBDA symbol : symbol # "|")
        Segment_(n) == toks[places[n][1]].segments[places[n][2]]
        IsLive(n) == Segment_(n).type_ = "vowel" /\ ~Segment_(n).elided
        vowel_i(n) == Cardinality({m \in 1..n : IsLive(m)})
    IN  Letters(Flatten(
            [n \in 1..Len(places) |->
                IF IsLive(n) /\ vowel_i(n) <= Len(symbols)
                THEN ClaimedVowel(Segment_(n), symbols[vowel_i(n)])
                ELSE restore_cases(Segment_(n).lowercase_form,
                                   Segment_(n).original_case)]))

\* C20 as stated: in every reading a monophthong of unknown length with an
\* open coda, or an ambiguous coda read as short, carries the macron under
\* '-' and the breve under 'u', whatever vowel letter it is, y included;
\* every other vowel is rendered without an added mark.
C20_RenderedDiacritics ==
    Scanned =>
        \A k \in 2..Len(scansions) :
            Letters(scansions[k][1])
                = ClaimedLetters(tokens, full_metrical_sequences[k - 1])


-----------------------------------------------------------------------------
(* The thresholds of the length dictionary.                                *)

DictionaryMade == pc = "dictionary_made"

\* the class of a vowel with the tallies (long, short), as stated
Class(long, short) ==
    IF long >= minimal_frequency /\ short <= maximum_of_contradictions
    THEN "long"
    ELSE IF short >= minimal_frequency /\ long <= maximum_of_contradictions
    THEN "short"
    ELSE "unknown"

\* C16: make_length_dictionary classifies a vowel with the tallies (long,
\* short) as "long" if long >= minimal_frequency and short <=
\* maximum_of_contradictions, otherwise as "short" if short >=
\* minimal_frequency and long <= maximum_of_contradictions, otherwise as
\* "unknown"; a word is in the dictionary exactly when one of its vowels is
\* not "unknown". With the defaults 20 and 3, 20 long / 0 short is "long"
\* and 19 long / 1 short is not classified.
C16_Thresholds ==
    DictionaryMade =>
        /\ DictKeys(dictionary) \subseteq DictKeys(frequencies)
        /\ \A k \in 1..Len(frequencies) :
             LET word == frequencies[k][1]
                 vowels == frequencies[k][2]
                 classes == [v \in 1..Len(vowels) |->
                                Class(vowels[v].long, vowels[v].short)]
             IN  /\ word \in DictKeys(dictionary)
                      <=> \E v \in 1..Len(vowels) : classes[v] # "unknown"
                 /\ word \in DictKeys(dictionary)
                      => DictGet(dictionary, word) = classes
                 /\ minimal_frequency = 20 /\ maximum_of_contradictions = 3
                      => \A v \in 1..Len(vowels) :
                           /\ vowels[v].long = 20 /\ vowels[v].short = 0
                                => DictGet(dictionary, word)[v] = "long"
                           /\ vowels[v].long = 19 /\ vowels[v].short = 1
                                => \/ word \notin DictKeys(dictionary)
                                   \/ DictGet(dictionary, word)[v] = "unknown"

\* under the defaults, tata with 20 long / 0 short for its first vowel and
\* 19 long / 1 short for its second, and ta with 0 long / 20 short
C16_Witness ==
    /\ DictionaryMade
    /\ minimal_frequency = 20 /\ maximum_of_contradictions = 3
    /\ Len(frequencies) = 2
    /\ frequencies[1][2] = <<Tally(20, 0, 1), Tally(19, 1, 0)>>
    /\ dictionary = <<  <<  <<"t", "a", "t", "a">>, <<"long", "unknown">>  >>,
                        <<  <<"t", "a">>, <<"short">>  >>  >>


-----------------------------------------------------------------------------
(* One verdict per monophthong.                                            *)

\* the tokens have their segments
Segmentized == pc = "elide" \/ Elided

Monophthongs(token) ==
    Cardinality({g \in 1..Len(token.segments) :
                    token.segments[g].subtype = "monophthong"})

\* the lists stored for the words of the verse have one entry for every
\* monophthong of the word
SlotsMatch(stored) ==
    \A t \in 1..Len(tokens) :
        LET form == strip_diacritics(tokens[t].lowercase_form)
        IN  tokens[t].type_ = "word" /\ form \in DictKeys(stored)
                => Monophthongs(tokens[t]) = Len(DictGet(stored, form))

\* the count of a scanned verse ran past the end of a list
CountFailed == pc = "IndexError" /\ scansion_count # -1

\* C17 as stated: for every word token whose form without diacritics is a
\* key of the tallies or of the dictionary, the number of monophthong
\* segments of the token is the length of the stored list, whichever
\* length marks the word carries; so the count of a verse never indexes
\* past the end of a list.
C17_OneVerdictPerMonophthong ==
    /\ Segmentized => SlotsMatch(length_frequencies) /\ SlotsMatch(dictionary)
    /\ ~CountFailed


-----------------------------------------------------------------------------
(* The lines of a file are analysed one by one.                            *)

\* the program has come to its end: after the last line, or by an exception
Halted ==
    \/ pc = "read_line" /\ line_i = Len(lines)
    \/ pc \in {"ValueError", "IndexError"}

\* a word of the line has a character that no rule of the segmenter takes
FailsToSegment(line) ==
    LET toks == tokenize(normalize(line))
    IN  \E t \in 1..Len(toks) : segmentize(toks[t]).error

\* the number of lines among the first k that can be segmented
Segmentable(k) ==
    Cardinality({j \in 1..k : ~FailsToSegment(lines[j])})

\* C18 as stated: a line that cannot be segmented affects only itself:
\* when the program has ended, every line that can be segmented, also one
\* after a line that cannot, has been analysed and has its output, the
\* outputs standing in the order of the lines.
C18_FailureAffectsOneLine ==
    Halted =>
        /\ line_i = Len(lines)
        /\ Len(output) = Segmentable(Len(lines))
        /\ \A k \in 1..Len(lines) :
             ~FailsToSegment(lines[k]) => output[Segmentable(k)] # <<>>


-----------------------------------------------------------------------------
(* The case mask of a segment.                                             *)

\* C21 as stated: after every pass that makes or rewrites a segment
\* (segmentize, brevize, add_lengths, elide) the case mask of every segment
\* has as many flags as its text has characters, so restore_cases gives
\* back every character of the text.
C21_CaseMaskMatchesText ==
    Segmentized =>
        \A k \in 1..Len(AllSegments) :
            /\ Len(AllSegments[k].original_case)
                   = Len(AllSegments[k].lowercase_form)
            /\ Len(restore_cases(AllSegments[k].lowercase_form,
                                 AllSegments[k].original_case))
                   = Len(AllSegments[k].lowercase_form)


-----------------------------------------------------------------------------
(* The tokens after analyse_codas.                                         *)

\* a reading rendered on its own
RenderedAlone(toks, sequence) ==
    LET rendered == scan_in_one_way(toks, sequence)
    IN  <<rendered.text, rendered.aligned_sequence>>

\* C22: once analyse_codas has finished, make_scheme,
\* generate_candidate_sequences, find_metrical_sequences, scan and
\* print_scansions leave every token and every field of every segment as
\* it was, and every reading is rendered as it is when rendered alone.
C22_TokensReadOnly ==
    [][ /\ CodasAnalysed => tokens' = tokens
        /\ Scanned' =>
             /\ Len(scansions') = Len(full_metrical_sequences') + 1
             /\ scansions'[1] = RenderedAlone(tokens', scheme')
             /\ \A k \in 1..Len(full_metrical_sequences') :
                  scansions'[k + 1]
                      = RenderedAlone(tokens', full_metrical_sequences'[k])
      ]_vars

\* a line of six readings has been analysed and printed
C22_Witness ==
    /\ pc = "read_line"
    /\ line_i > 0
    /\ Len(output) = line_i
    /\ scansion_count = 6
    /\ \E k \in 1..Len(AllSegments) : AllSegments[k].coda = "open"


-----------------------------------------------------------------------------
(* The walk of scan_in_one_way through a reading.                          *)

\* the foot boundaries put into a text or into an aligned sequence
Markers(text) ==
    Len(SelectSeq(text, LAMBDA char : char \in {"|", "\\"}))

\* C23: for every verse and every reading in full_metrical_sequences,
\* scan_in_one_way takes every symbol of the pattern once and in order, its
\* index ending at the length of the pattern, never indexes the pattern or
\* an empty chunk out of range, and puts five foot boundaries ('|' or '\')
\* into the text and five into the aligned sequence.
C23_ReadingWalked ==
    /\ pc # "IndexError"
    /\ Scanned =>
         \A k \in 1..Len(full_metrical_sequences) :
             LET walk == scan_in_one_way(tokens, full_metrical_sequences[k])
             IN  /\ ~walk.error
                 /\ walk.i = Len(full_metrical_sequences[k])
                 /\ Markers(scansions[k + 1][1]) = 5
                 /\ Markers(scansions[k + 1][2]) = 5

\* a reading with a boundary of ambiguous placement inside a word and
\* boundaries at the spaces between words
C23_Witness ==
    /\ Scanned
    /\ \E k \in 2..Len(scansions) :
         LET text == scansions[k][1]
         IN  /\ Markers(text) = 5
             /\ \E n \in 1..Len(text) : text[n] = "\\"
             /\ \E n \in 2..Len(text) : text[n] = "|" /\ text[n - 1] = " "


-----------------------------------------------------------------------------
(* segmentize loses no character.                                          *)

\* the texts of the segments, one after the other
SegmentsText(segments) ==
    Flatten([g \in 1..Len(segments) |-> segments[g].lowercase_form])

\* C24: for every word token of characters the segmenter accepts,
\* segmentize comes to its end and loses nothing: the texts of its segments
\* in order make up the lowercase form of the token, every character in
\* exactly one segment and the empty segments adding nothing, and the walk
\* stops on the closing sentinel space, never beyond it.
C24_SegmentizeLossless ==
    /\ pc = "segmentize" =>
         \A t \in 1..Len(tokens) :
             LET made == segmentize(tokens[t])
             IN  tokens[t].type_ = "word" =>
                     /\ ~made.overrun
                     /\ ~made.error =>
                          /\ made.i = Len(tokens[t].lowercase_form) + 1
                          /\ SegmentsText(made.segments)
                                 = tokens[t].lowercase_form
    /\ pc = "elide" /\ mode = "plain" =>
         \A t \in 1..Len(tokens) :
             tokens[t].type_ = "word" =>
                 SegmentsText(tokens[t].segments) = tokens[t].lowercase_form

\* a word segmented into an empty consonant, a consonant and a segment of
\* two characters
C24_Witness ==
    /\ pc = "elide"
    /\ mode = "plain"
    /\ \E t \in 1..Len(tokens) :
         /\ tokens[t].type_ = "word"
         /\ \E g \in 1..Len(tokens[t].segments) :
                tokens[t].segments[g].lowercase_form = <<>>
         /\ \E g \in 1..Len(tokens[t].segments) :
                Len(tokens[t].segments[g].lowercase_form) = 2

=============================================================================
